---------------------------- MODULE Spec2Model ----------------------------
(***************************************************************************)
(* Matching and risk-scoring engine of the KYC & sanctions screening tool. *)
(*                                                                         *)
(* Text is modelled as a sequence of one-character strings, so that the    *)
(* string functions of utils.py are computed and not assumed.  A Python    *)
(* dict is a record: a key the dict lacks is a field the record lacks.     *)
(* A Python None is the value None, which is not a text.                   *)
(*                                                                         *)
(* A similarity score is the exact rational 200*M/T that                   *)
(* SequenceMatcher.ratio()*100 denotes (M matched characters, T the sum of *)
(* the two lengths), kept as a reduced fraction [num, den].                *)
(***************************************************************************)
EXTENDS Integers, Sequences, FiniteSets, TLC

VARIABLES
    pc,                 \* the position in screen_new_customer, or of a direct call
    today,              \* date.today()
    sanctions_table,    \* the rows of the sanctions table
    customer_data,      \* the dict of _collect_customer_information
    validation_result,  \* the dict of _validate_customer_data
    sanctions,          \* the list db.search_sanctions returned
    cursor,             \* the place of the for loop in that list
    evaluated,          \* the ids of the entries the loop has passed to
                        \* _check_sanction_match, in call order
    matches,            \* the list _perform_sanctions_screening builds
    risk_assessment,    \* the dict of calculate_customer_risk
    screening_result,   \* the text of _determine_screening_result
    report_generated,   \* the report file was written
    customer_saved,     \* db.add_customer stored the customer
    args,               \* the arguments of a direct call of a StringUtils function
    result              \* what that call returned

vars == <<pc, today, sanctions_table, customer_data, validation_result,
          sanctions, cursor, evaluated, matches, risk_assessment,
          screening_result, report_generated, customer_saved, args, result>>

---------------------------------------------------------------------------
(* Python values that are not text *)

None == <<"<None>">>

\* isinstance(x, str)
IsStr(x) == x # None

\* d.get(key, default): the default only replaces an absent key
Get(d, key, default) == IF key \in DOMAIN d THEN d[key] ELSE default

\* d.get(key)
GetOrNone(d, key) == Get(d, key, None)

\* truthiness of an optional text: None and "" are false
Truthy(x) == IsStr(x) /\ Len(x) > 0

---------------------------------------------------------------------------
(* Characters *)

LowerLetters == <<"a","b","c","d","e","f","g","h","i","j","k","l","m",
                  "n","o","p","q","r","s","t","u","v","w","x","y","z">>
UpperLetters == <<"A","B","C","D","E","F","G","H","I","J","K","L","M",
                  "N","O","P","Q","R","S","T","U","V","W","X","Y","Z">>
Digits == <<"0","1","2","3","4","5","6","7","8","9">>

Range(s) == {s[i] : i \in 1..Len(s)}

IsLower(c) == c \in Range(LowerLetters)
IsUpper(c) == c \in Range(UpperLetters)
IsDigit(c) == c \in Range(Digits)
IsAlpha(c) == IsLower(c) \/ IsUpper(c)
\* \w of the re module: letters, digits and the underscore
IsWordChar(c) == IsAlpha(c) \/ IsDigit(c) \/ c = "_"
\* \s of the re module and the separators of str.split() / str.strip()
IsSpace(c) == c \in {" ", "\t"}

\* str.lower() of one character
LowerChar(c) ==
    IF IsUpper(c)
    THEN LowerLetters[CHOOSE i \in 1..26 : UpperLetters[i] = c]
    ELSE c

\* str.lower()
Lower(s) == [i \in 1..Len(s) |-> LowerChar(s[i])]

\* int() of one digit
DigitValue(c) == (CHOOSE i \in 1..10 : Digits[i] = c) - 1

---------------------------------------------------------------------------
(* str methods *)

RECURSIVE LStrip(_)
LStrip(s) == IF s # <<>> /\ IsSpace(Head(s)) THEN LStrip(Tail(s)) ELSE s

RECURSIVE RStrip(_)
RStrip(s) ==
    IF s # <<>> /\ IsSpace(s[Len(s)]) THEN RStrip(SubSeq(s, 1, Len(s) - 1))
    ELSE s

\* str.strip()
Strip(s) == RStrip(LStrip(s))

\* str.split(): the maximal runs of non-whitespace characters, in order
RECURSIVE SplitFrom(_, _, _)
SplitFrom(s, i, cur) ==
    IF i > Len(s) THEN (IF cur = <<>> THEN <<>> ELSE <<cur>>)
    ELSE IF IsSpace(s[i])
         THEN (IF cur = <<>> THEN <<>> ELSE <<cur>>) \o SplitFrom(s, i + 1, <<>>)
         ELSE SplitFrom(s, i + 1, Append(cur, s[i]))

Split(s) == SplitFrom(s, 1, <<>>)

\* ' '.join(tokens)
RECURSIVE JoinSpace(_)
JoinSpace(tokens) ==
    IF tokens = <<>> THEN <<>>
    ELSE IF Len(tokens) = 1 THEN tokens[1]
    ELSE tokens[1] \o <<" ">> \o JoinSpace(Tail(tokens))

\* needle in haystack (substring test of the `in` operator on str)
Contains(haystack, needle) ==
    \E i \in 1..(Len(haystack) - Len(needle) + 1) :
        SubSeq(haystack, i, i + Len(needle) - 1) = needle

---------------------------------------------------------------------------
(* StringUtils.normalize_english *)

titles ==
    << <<"m","r">>,
       <<"m","r","s">>,
       <<"m","s">>,
       <<"m","i","s","s">>,
       <<"d","r">>,
       <<"p","r","o","f">>,
       <<"e","n","g">>,
       <<"s","i","r">>,
       <<"m","a","d","a","m">>,
       <<"l","o","r","d">>,
       <<"l","a","d","y">>,
       <<"h","a","j">>,
       <<"s","h","e","i","k","h">> >>

\* \b at the gap before position i (1-based) of text: exactly one of the two
\* neighbouring characters is a word character; outside the text counts as none
WordBoundary(text, i) ==
    LET before == i > 1 /\ i - 1 <= Len(text) /\ IsWordChar(text[i - 1])
        after  == i >= 1 /\ i <= Len(text) /\ IsWordChar(text[i])
    IN  before # after

\* \btitle\b matches at position i
TitleAt(text, title, i) ==
    /\ i + Len(title) - 1 <= Len(text)
    /\ SubSeq(text, i, i + Len(title) - 1) = title
    /\ WordBoundary(text, i)
    /\ WordBoundary(text, i + Len(title))

\* first position after the greedy \s* that starts at i
RECURSIVE SkipSpaces(_, _)
SkipSpaces(text, i) ==
    IF i <= Len(text) /\ IsSpace(text[i]) THEN SkipSpaces(text, i + 1) ELSE i

\* first position after the match of \btitle\b\.?\s* that starts at i
TitleMatchEnd(text, title, i) ==
    LET j == i + Len(title)
        k == IF j <= Len(text) /\ text[j] = "." THEN j + 1 ELSE j
    IN  SkipSpaces(text, k)

\* re.sub(rf'\b{title}\b\.?\s*', '', text): leftmost matches, left to right,
\* the scan resuming after each match
RECURSIVE RemoveTitleFrom(_, _, _)
RemoveTitleFrom(text, title, i) ==
    IF i > Len(text) THEN <<>>
    ELSE IF TitleAt(text, title, i)
         THEN RemoveTitleFrom(text, title, TitleMatchEnd(text, title, i))
         ELSE <<text[i]>> \o RemoveTitleFrom(text, title, i + 1)

RemoveTitle(text, title) == RemoveTitleFrom(text, title, 1)

\* the loop over titles, in list order
RECURSIVE RemoveTitles(_, _)
RemoveTitles(text, k) ==
    IF k > Len(titles) THEN text
    ELSE RemoveTitles(RemoveTitle(text, titles[k]), k + 1)

\* mutant of ReplacePunctuation: punctuation is deleted, not replaced by a space
ReplacePunctuation_Delete(text) ==
    SelectSeq(text, LAMBDA c : IsWordChar(c) \/ IsSpace(c))

\* re.sub(r'[^\w\s]', ' ', text)
ReplacePunctuation(text) ==
    [i \in 1..Len(text) |->
        IF IsWordChar(text[i]) \/ IsSpace(text[i]) THEN text[i] ELSE " "]

normalize_english(text) ==
    IF ~Truthy(text) THEN <<>>
    ELSE JoinSpace(Split(ReplacePunctuation(RemoveTitles(Strip(Lower(text)), 1))))

---------------------------------------------------------------------------
(* Exact rationals for the float scores *)

RECURSIVE GCD(_, _)
GCD(a, b) == IF b = 0 THEN a ELSE GCD(b, a % b)

Rat(n, d) == LET g == GCD(n, d) IN [num |-> n \div g, den |-> d \div g]
RatInt(n) == [num |-> n, den |-> 1]

RatGE(r, s) == r.num * s.den >= s.num * r.den
RatLT(r, s) == ~RatGE(r, s)
RatAdd(r, s) == Rat(r.num * s.den + s.num * r.den, r.den * s.den)
\* mutant of RatMax: the first argument, whatever the second is
RatMax_First(r, s) == r

\* max(a, b) and min(a, b) of Python return the first argument on a tie
RatMax(r, s) == IF RatGE(r, s) THEN r ELSE s
RatMin(r, s) == IF RatGE(s, r) THEN r ELSE s

---------------------------------------------------------------------------
(* difflib.SequenceMatcher(None, a, b).ratio(), as StringUtils.similarity_ratio *)
(* uses it.  Without a junk predicate, and below the 200 characters at which  *)
(* difflib starts to ignore popular characters, the matching blocks are: the  *)
(* longest common block, the earliest in a and then in b among the longest,   *)
(* and recursively the blocks to its left and to its right.                   *)

\* length of the common run of a from i and b from j, inside [.., ahi] x [.., bhi]
RECURSIVE RunLength(_, _, _, _, _, _)
RunLength(a, b, i, j, ahi, bhi) ==
    IF i <= ahi /\ j <= bhi /\ a[i] = b[j]
    THEN 1 + RunLength(a, b, i + 1, j + 1, ahi, bhi)
    ELSE 0

SetMax(S) == CHOOSE x \in S : \A y \in S : y <= x
SetMin(S) == CHOOSE x \in S : \A y \in S : x <= y

\* find_longest_match(alo, ahi, blo, bhi), bounds inclusive: <<i, j, size>>
find_longest_match(a, b, alo, ahi, blo, bhi) ==
    LET runs == [p \in (alo..ahi) \X (blo..bhi) |->
                    RunLength(a, b, p[1], p[2], ahi, bhi)]
        best == IF DOMAIN runs = {} THEN 0
                ELSE SetMax({runs[p] : p \in DOMAIN runs})
    IN  IF best = 0 THEN <<alo, blo, 0>>
        ELSE LET i == SetMin({p[1] : p \in {q \in DOMAIN runs : runs[q] = best}})
                 j == SetMin({p[2] : p \in {q \in DOMAIN runs :
                                               runs[q] = best /\ q[1] = i}})
             IN  <<i, j, best>>

\* number of characters in the matching blocks of a[alo..ahi] and b[blo..bhi]
RECURSIVE MatchedChars(_, _, _, _, _, _)
MatchedChars(a, b, alo, ahi, blo, bhi) ==
    IF alo > ahi \/ blo > bhi THEN 0
    ELSE LET m == find_longest_match(a, b, alo, ahi, blo, bhi)
         IN  IF m[3] = 0 THEN 0
             ELSE m[3]
                  + MatchedChars(a, b, alo, m[1] - 1, blo, m[2] - 1)
                  + MatchedChars(a, b, m[1] + m[3], ahi, m[2] + m[3], bhi)

\* mutants of similarity_ratio: without the guard for empty strings, where
\* SequenceMatcher.ratio() is 1.0 for two empty strings; without the * 100
similarity_ratio_NoGuard(str1, str2) ==
    IF Len(str1) + Len(str2) = 0 THEN RatInt(100)
    ELSE Rat(200 * MatchedChars(str1, str2, 1, Len(str1), 1, Len(str2)),
             Len(str1) + Len(str2))

similarity_ratio_Unscaled(str1, str2) ==
    IF ~Truthy(str1) \/ ~Truthy(str2) THEN RatInt(0)
    ELSE Rat(2 * MatchedChars(str1, str2, 1, Len(str1), 1, Len(str2)),
             Len(str1) + Len(str2))

similarity_ratio(str1, str2) ==
    IF ~Truthy(str1) \/ ~Truthy(str2) THEN RatInt(0)
    ELSE Rat(200 * MatchedChars(str1, str2, 1, Len(str1), 1, Len(str2)),
             Len(str1) + Len(str2))

---------------------------------------------------------------------------
(* config.py *)

name_match_threshold == 85
pep_penalty == 30
high_risk_country_penalty == 25
sanction_match_penalty == 100
partial_match_penalty == 50
age_risk_threshold == 70
unusual_id_penalty == 20
max_risk_score == 100

HIGH_RISK_COUNTRIES ==
    << <<"A","F">>, <<"I","R">>, <<"K","P">>, <<"S","Y">>, <<"Y","E">>,
       <<"S","D">>, <<"S","O">>, <<"I","Q">>, <<"L","Y">>, <<"V","E">>,
       <<"C","U">>, <<"R","U">>, <<"B","Y">>, <<"M","M">>, <<"E","R">>,
       <<"Z","W">> >>

PEP_INDICATORS ==
    << <<"m","i","n","i","s","t","e","r">>,
       <<"p","r","e","s","i","d","e","n","t">>,
       <<"p","r","i","m","e"," ","m","i","n","i","s","t","e","r">>,
       <<"s","e","n","a","t","o","r">>, <<"c","o","n","g","r","e","s","s">>,
       <<"p","a","r","l","i","a","m","e","n","t">>,
       <<"a","m","b","a","s","s","a","d","o","r">>,
       <<"g","o","v","e","r","n","o","r">>, <<"m","a","y","o","r">>,
       <<"d","i","p","l","o","m","a","t">>,
       <<"s","e","c","r","e","t","a","r","y">>,
       <<"c","o","m","m","i","s","s","i","o","n","e","r">>,
       <<"g","e","n","e","r","a","l">>, <<"c","o","l","o","n","e","l">>,
       <<"m","a","j","o","r">>, <<"c","a","p","t","a","i","n">>,
       <<"a","d","m","i","r","a","l">>, <<"m","a","r","s","h","a","l">>,
       <<"k","i","n","g">>, <<"q","u","e","e","n">>,
       <<"p","r","i","n","c","e">>, <<"p","r","i","n","c","e","s","s">>,
       <<"e","m","i","r">>, <<"s","u","l","t","a","n">>,
       <<"s","h","e","i","k","h">>, <<"r","o","y","a","l">>,
       <<"j","u","d","g","e">>, <<"j","u","s","t","i","c","e">>,
       <<"m","a","g","i","s","t","r","a","t","e">>,
       <<"p","r","o","s","e","c","u","t","o","r">>,
       <<"d","i","r","e","c","t","o","r">>,
       <<"c","o","m","m","i","s","s","i","o","n","e","r">>,
       <<"c","o","n","t","r","o","l","l","e","r">>,
       <<"a","u","d","i","t","o","r">> >>

---------------------------------------------------------------------------
(* StringUtils.contains_pep_indicator *)

\* mutant of contains_pep_indicator: indicator == text_lower in place of
\* indicator in text_lower
contains_pep_indicator_WholeText(text, indicators) ==
    IF ~Truthy(text) THEN FALSE
    ELSE \E k \in 1..Len(indicators) : Lower(text) = indicators[k]

contains_pep_indicator(text, indicators) ==
    IF ~Truthy(text) THEN FALSE
    ELSE LET text_lower == Lower(text)
         IN  \E k \in 1..Len(indicators) : Contains(text_lower, indicators[k])

---------------------------------------------------------------------------
(* DateUtils.calculate_age: datetime.strptime(birth_date, '%Y-%m-%d') and the *)
(* birthday rule.  A date is [year, month, day]; NoDate is the ValueError of *)
(* strptime and of the date constructor.                                     *)

NoDate == [year |-> 0, month |-> 0, day |-> 0]

AllDigits(s) == \A i \in 1..Len(s) : IsDigit(s[i])

RECURSIVE ToInt(_)
ToInt(s) ==
    IF s = <<>> THEN 0
    ELSE 10 * ToInt(SubSeq(s, 1, Len(s) - 1)) + DigitValue(s[Len(s)])

\* the pieces of s between the '-' characters
RECURSIVE SplitDash(_, _, _)
SplitDash(s, i, cur) ==
    IF i > Len(s) THEN <<cur>>
    ELSE IF s[i] = "-" THEN <<cur>> \o SplitDash(s, i + 1, <<>>)
         ELSE SplitDash(s, i + 1, Append(cur, s[i]))

\* %Y is \d\d\d\d
IsYearField(f) == Len(f) = 4 /\ AllDigits(f)
\* %m is 1[0-2]|0[1-9]|[1-9]
IsMonthField(f) ==
    /\ Len(f) \in {1, 2}
    /\ AllDigits(f)
    /\ ToInt(f) \in 1..12
\* %d is 3[01]|[12]\d|0[1-9]|[1-9]| [1-9]
IsDayField(f) ==
    \/ Len(f) \in {1, 2} /\ AllDigits(f) /\ ToInt(f) \in 1..31
    \/ Len(f) = 2 /\ f[1] = " " /\ IsDigit(f[2]) /\ f[2] # "0"

DayValue(f) == IF f[1] = " " THEN DigitValue(f[2]) ELSE ToInt(f)

IsLeap(y) == y % 4 = 0 /\ (y % 100 # 0 \/ y % 400 = 0)

DaysInMonth(y, m) ==
    IF m = 2 THEN (IF IsLeap(y) THEN 29 ELSE 28)
    ELSE IF m \in {4, 6, 9, 11} THEN 30 ELSE 31

strptime(date_str) ==
    LET f == SplitDash(date_str, 1, <<>>)
    IN  IF /\ Len(f) = 3
           /\ IsYearField(f[1]) /\ IsMonthField(f[2]) /\ IsDayField(f[3])
           /\ ToInt(f[1]) >= 1
           /\ DayValue(f[3]) <= DaysInMonth(ToInt(f[1]), ToInt(f[2]))
        THEN [year |-> ToInt(f[1]), month |-> ToInt(f[2]), day |-> DayValue(f[3])]
        ELSE NoDate

\* Optional[int] of calculate_age: <<>> is None, <<n>> is the integer n
NoAge == <<>>

\* `now` is date.today()
calculate_age(birth_date, now) ==
    IF ~Truthy(birth_date) THEN NoAge
    ELSE LET d == strptime(birth_date)
         IN  IF d = NoDate THEN NoAge
             ELSE LET age == now.year - d.year
                  IN  IF now.month < d.month
                         \/ (now.month = d.month /\ now.day < d.day)
                      THEN <<age - 1>>
                      ELSE <<age>>

---------------------------------------------------------------------------
(* KYCScreeningTool._check_sanction_match *)

\* the result of a call that raised
Raised(exception) == [raised |-> exception]
IsRaised(r) == "raised" \in DOMAIN r

\* mutants of ClassifyMatch: a score of exactly 95 is not EXACT; a score of
\* exactly the threshold is no match
ClassifyMatch_StrictExact(match_score) ==
    IF RatGE(match_score, RatInt(name_match_threshold))
    THEN [is_match |-> TRUE,
          match_type |-> IF RatGE(match_score, RatInt(95)) /\ match_score # RatInt(95)
                         THEN "EXACT" ELSE "PARTIAL"]
    ELSE [is_match |-> FALSE, match_type |-> "NO_MATCH"]

ClassifyMatch_StrictThreshold(match_score) ==
    IF RatGE(match_score, RatInt(name_match_threshold))
       /\ match_score # RatInt(name_match_threshold)
    THEN [is_match |-> TRUE,
          match_type |-> IF RatGE(match_score, RatInt(95)) THEN "EXACT" ELSE "PARTIAL"]
    ELSE [is_match |-> FALSE, match_type |-> "NO_MATCH"]

\* "Determine match type": is_match and match_type from the name score
ClassifyMatch(match_score) ==
    IF RatGE(match_score, RatInt(name_match_threshold))
    THEN [is_match |-> TRUE,
          match_type |-> IF RatGE(match_score, RatInt(95)) THEN "EXACT" ELSE "PARTIAL"]
    ELSE [is_match |-> FALSE, match_type |-> "NO_MATCH"]

\* dob_match = (customer_dob == sanction_dob), when both are given
DobMatch(customer_dob, sanction_dob) ==
    /\ Truthy(customer_dob)
    /\ Truthy(sanction_dob)
    /\ customer_dob = sanction_dob

\* if dob_match: match_score += 20
AddDobBonus(match_score, dob_match) ==
    IF dob_match THEN RatAdd(match_score, RatInt(20)) ELSE match_score

\* mutant of ClampMatchScore: the score is returned as it is
ClampMatchScore_None(match_score) == match_score

\* min(match_score, 100)
ClampMatchScore(match_score) == RatMin(match_score, RatInt(100))

\* mutant of check_sanction_match: the match type is decided after the
\* date-of-birth bonus was added
check_sanction_match_ClassifyBoosted(customer, sanction) ==
    LET customer_name == normalize_english(Get(customer, "full_name_en", <<>>))
        sanction_name == normalize_english(Get(sanction, "full_name_en", <<>>))
        alias_name    == normalize_english(Get(sanction, "alias_en", <<>>))
        name_match_score  == similarity_ratio(customer_name, sanction_name)
        alias_match_score == IF Truthy(alias_name)
                             THEN similarity_ratio(customer_name, alias_name)
                             ELSE RatInt(0)
        match_score == RatMax(name_match_score, alias_match_score)
        dob_match   == /\ Truthy(GetOrNone(customer, "date_of_birth"))
                       /\ GetOrNone(customer, "date_of_birth")
                            = GetOrNone(sanction, "date_of_birth")
        boosted     == IF dob_match THEN RatAdd(match_score, RatInt(20))
                       ELSE match_score
        is_match    == RatGE(boosted, RatInt(name_match_threshold))
    IN  [ is_match          |-> is_match,
          sanction_id       |-> sanction.id,
          sanction_name     |-> GetOrNone(sanction, "full_name_en"),
          sanction_source   |-> GetOrNone(sanction, "list_source"),
          match_type        |-> IF ~is_match THEN "NO_MATCH"
                                ELSE IF RatGE(boosted, RatInt(95)) THEN "EXACT"
                                ELSE "PARTIAL",
          match_score       |-> RatMin(boosted, RatInt(100)),
          name_match_score  |-> name_match_score,
          dob_match         |-> dob_match,
          nationality_match |-> GetOrNone(customer, "nationality_code")
                                = GetOrNone(sanction, "nationality_code"),
          risk_level        |-> Get(sanction, "risk_level", "HIGH") ]

check_sanction_match(customer, sanction) ==
    LET customer_name == normalize_english(Get(customer, "full_name_en", <<>>))
        sanction_name == normalize_english(Get(sanction, "full_name_en", <<>>))
        alias_name    == normalize_english(Get(sanction, "alias_en", <<>>))
        name_match_score  == similarity_ratio(customer_name, sanction_name)
        alias_match_score == IF Truthy(alias_name)
                             THEN similarity_ratio(customer_name, alias_name)
                             ELSE RatInt(0)
        match_score == RatMax(name_match_score, alias_match_score)
        class       == ClassifyMatch(match_score)
        dob_match   == DobMatch(GetOrNone(customer, "date_of_birth"),
                                GetOrNone(sanction, "date_of_birth"))
        boosted     == AddDobBonus(match_score, dob_match)
        nationality_match == GetOrNone(customer, "nationality_code")
                             = GetOrNone(sanction, "nationality_code")
    IN  IF "id" \notin DOMAIN sanction THEN Raised("KeyError")
        ELSE [ is_match          |-> class.is_match,
               sanction_id       |-> sanction.id,
               sanction_name     |-> GetOrNone(sanction, "full_name_en"),
               sanction_source   |-> GetOrNone(sanction, "list_source"),
               match_type        |-> class.match_type,
               match_score       |-> ClampMatchScore(boosted),
               name_match_score  |-> name_match_score,
               dob_match         |-> dob_match,
               nationality_match |-> nationality_match,
               risk_level        |-> Get(sanction, "risk_level", "HIGH") ]

---------------------------------------------------------------------------
(* KYCScreeningTool._determine_screening_result *)

\* mutants of determine_screening_result: the risk level is looked at before
\* the exact matches; the partial matches are looked at before the risk level
determine_screening_result_RiskFirst(match_list, assessment) ==
    IF match_list = <<>> THEN "CLEAR"
    ELSE IF Get(assessment, "risk_level", "LOW") \in {"HIGH", "CRITICAL"}
         THEN "REVIEW_REQUIRED"
    ELSE IF \E i \in 1..Len(match_list) : match_list[i].match_type = "EXACT"
         THEN "REJECTED"
    ELSE IF \E i \in 1..Len(match_list) : match_list[i].match_type = "PARTIAL"
         THEN "CLEAR_WITH_WARNING"
    ELSE "CLEAR"

determine_screening_result_PartialFirst(match_list, assessment) ==
    IF match_list = <<>> THEN "CLEAR"
    ELSE IF \E i \in 1..Len(match_list) : match_list[i].match_type = "EXACT"
         THEN "REJECTED"
    ELSE IF \E i \in 1..Len(match_list) : match_list[i].match_type = "PARTIAL"
         THEN "CLEAR_WITH_WARNING"
    ELSE IF Get(assessment, "risk_level", "LOW") \in {"HIGH", "CRITICAL"}
         THEN "REVIEW_REQUIRED"
    ELSE "CLEAR"

\* mutant of determine_screening_result: the empty list is not looked at first
determine_screening_result_NoEmptyCheck(match_list, assessment) ==
    IF \E i \in 1..Len(match_list) : match_list[i].match_type = "EXACT"
    THEN "REJECTED"
    ELSE IF Get(assessment, "risk_level", "LOW") \in {"HIGH", "CRITICAL"}
         THEN "REVIEW_REQUIRED"
    ELSE IF \E i \in 1..Len(match_list) : match_list[i].match_type = "PARTIAL"
         THEN "CLEAR_WITH_WARNING"
    ELSE "CLEAR"

determine_screening_result(match_list, assessment) ==
    IF match_list = <<>> THEN "CLEAR"
    ELSE IF \E i \in 1..Len(match_list) : match_list[i].match_type = "EXACT"
         THEN "REJECTED"
    ELSE IF Get(assessment, "risk_level", "LOW") \in {"HIGH", "CRITICAL"}
         THEN "REVIEW_REQUIRED"
    ELSE IF \E i \in 1..Len(match_list) : match_list[i].match_type = "PARTIAL"
         THEN "CLEAR_WITH_WARNING"
    ELSE "CLEAR"

---------------------------------------------------------------------------
(* RiskCalculator *)

\* mutant of determine_risk_level: a score on a threshold gets the level below
determine_risk_level_Strict(risk_score) ==
    IF risk_score > 80 THEN "CRITICAL"
    ELSE IF risk_score > 60 THEN "HIGH"
    ELSE IF risk_score > 40 THEN "MEDIUM"
    ELSE IF risk_score > 20 THEN "LOW"
    ELSE "VERY_LOW"

determine_risk_level(risk_score) ==
    IF risk_score >= 80 THEN "CRITICAL"
    ELSE IF risk_score >= 60 THEN "HIGH"
    ELSE IF risk_score >= 40 THEN "MEDIUM"
    ELSE IF risk_score >= 20 THEN "LOW"
    ELSE "VERY_LOW"

\* The running state of calculate_customer_risk: risk_score, risk_factors and
\* risk_details.  A factor is the pair of the fixed text of its f-string and
\* the value interpolated into it.
RiskStart == [risk_score |-> 0, risk_factors |-> <<>>, risk_details |-> <<>>]

\* risk_details[key] = value
SetDetail(details, key, value) ==
    [k \in DOMAIN details \cup {key} |-> IF k = key THEN value ELSE details[k]]

\* 1. PEP check (the argument is the lower-cased occupation)
PepCheck(r, occupation) ==
    IF contains_pep_indicator(occupation, PEP_INDICATORS)
    THEN [ risk_score   |-> r.risk_score + pep_penalty,
           risk_factors |-> Append(r.risk_factors,
                                   <<"PEP - Politically Exposed Person">>),
           risk_details |-> SetDetail(SetDetail(r.risk_details,
                                "pep_detected", TRUE), "pep_penalty", pep_penalty) ]
    ELSE r

\* 2. high-risk country check
\* mutant of CountryCheck: the penalty of the PEP branch is added
CountryCheck_PepPenalty(r, nationality) ==
    IF \E k \in 1..Len(HIGH_RISK_COUNTRIES) : HIGH_RISK_COUNTRIES[k] = nationality
    THEN [ risk_score   |-> r.risk_score + pep_penalty,
           risk_factors |-> Append(r.risk_factors,
                                   <<"High-risk country: ", nationality>>),
           risk_details |-> SetDetail(SetDetail(r.risk_details,
                                "high_risk_country", TRUE),
                                "country_penalty", pep_penalty) ]
    ELSE r

CountryCheck(r, nationality) ==
    IF \E k \in 1..Len(HIGH_RISK_COUNTRIES) : HIGH_RISK_COUNTRIES[k] = nationality
    THEN [ risk_score   |-> r.risk_score + high_risk_country_penalty,
           risk_factors |-> Append(r.risk_factors,
                                   <<"High-risk country: ", nationality>>),
           risk_details |-> SetDetail(SetDetail(r.risk_details,
                                "high_risk_country", TRUE),
                                "country_penalty", high_risk_country_penalty) ]
    ELSE r

\* mutant of MatchPenalty: risk_score = penalty in place of risk_score += penalty
MatchPenalty_Overwrite(r, match) ==
    [ r EXCEPT !.risk_score = IF Get(match, "match_type", "<absent>") = "EXACT"
                              THEN sanction_match_penalty
                              ELSE partial_match_penalty,
               !.risk_factors = Append(r.risk_factors, <<"match">>) ]

\* mutant of MatchPenalty: only a PARTIAL verdict counts as a partial match
MatchPenalty_PartialOnly(r, match) ==
    IF Get(match, "match_type", "<absent>") = "EXACT"
    THEN [ risk_score   |-> r.risk_score + sanction_match_penalty,
           risk_factors |-> Append(r.risk_factors,
                                   <<"Exact sanction match: ",
                                     Get(match, "sanction_name", <<"U","n","k","n","o","w","n">>)>>),
           risk_details |-> SetDetail(r.risk_details, "exact_matches",
                                Get(r.risk_details, "exact_matches", 0) + 1) ]
    ELSE IF Get(match, "match_type", "<absent>") = "PARTIAL"
    THEN [ risk_score   |-> r.risk_score + partial_match_penalty,
           risk_factors |-> Append(r.risk_factors,
                                   <<"Partial sanction match: ",
                                     Get(match, "sanction_name", <<"U","n","k","n","o","w","n">>)>>),
           risk_details |-> SetDetail(r.risk_details, "partial_matches",
                                Get(r.risk_details, "partial_matches", 0) + 1) ]
    ELSE r

\* 3. one turn of the loop over sanction_matches
MatchPenalty(r, match) ==
    IF Get(match, "match_type", "<absent>") = "EXACT"
    THEN [ risk_score   |-> r.risk_score + sanction_match_penalty,
           risk_factors |-> Append(r.risk_factors,
                                   <<"Exact sanction match: ",
                                     Get(match, "sanction_name", <<"U","n","k","n","o","w","n">>)>>),
           risk_details |-> SetDetail(r.risk_details, "exact_matches",
                                Get(r.risk_details, "exact_matches", 0) + 1) ]
    ELSE [ risk_score   |-> r.risk_score + partial_match_penalty,
           risk_factors |-> Append(r.risk_factors,
                                   <<"Partial sanction match: ",
                                     Get(match, "sanction_name", <<"U","n","k","n","o","w","n">>)>>),
           risk_details |-> SetDetail(r.risk_details, "partial_matches",
                                Get(r.risk_details, "partial_matches", 0) + 1) ]

RECURSIVE MatchesCheck(_, _, _)
MatchesCheck(r, sanction_matches, i) ==
    IF i > Len(sanction_matches) THEN r
    ELSE MatchesCheck(MatchPenalty(r, sanction_matches[i]), sanction_matches, i + 1)

\* mutant of AgeCheck: the signal fires from the threshold on
AgeCheck_AtThreshold(r, dob, now) ==
    IF ~Truthy(dob) THEN r
    ELSE LET age == calculate_age(dob, now)
         IN  IF age # NoAge /\ age[1] # 0 /\ age[1] >= age_risk_threshold
             THEN [ risk_score   |-> r.risk_score + 15,
                    risk_factors |-> Append(r.risk_factors,
                                            <<"High age risk: ", age[1]>>),
                    risk_details |-> SetDetail(r.risk_details, "age_risk", TRUE) ]
             ELSE r

\* 4. age-based risk
AgeCheck(r, dob, now) ==
    IF ~Truthy(dob) THEN r
    ELSE LET age == calculate_age(dob, now)
         IN  IF age # NoAge /\ age[1] # 0 /\ age[1] > age_risk_threshold
             THEN [ risk_score   |-> r.risk_score + 15,
                    risk_factors |-> Append(r.risk_factors,
                                            <<"High age risk: ", age[1]>>),
                    risk_details |-> SetDetail(r.risk_details, "age_risk", TRUE) ]
             ELSE r

\* 5. ID number pattern analysis
SuspiciousIdCheck(r, id_number) ==
    IF Cardinality(Range(id_number)) <= 3
    THEN [ risk_score   |-> r.risk_score + unusual_id_penalty,
           risk_factors |-> Append(r.risk_factors,
                                   <<"Suspicious ID number pattern">>),
           risk_details |-> SetDetail(r.risk_details, "suspicious_id", TRUE) ]
    ELSE r

\* mutant of ZeroIdCheck: the penalty is added and no factor is appended
ZeroIdCheck_NoFactor(r, id_number) ==
    IF \A i \in 1..Len(id_number) : id_number[i] = "0"
    THEN [r EXCEPT !.risk_score = r.risk_score + 20]
    ELSE r

ZeroIdCheck(r, id_number) ==
    IF \A i \in 1..Len(id_number) : id_number[i] = "0"
    THEN [ risk_score   |-> r.risk_score + 20,
           risk_factors |-> Append(r.risk_factors,
                                   <<"ID number contains only zeros">>),
           risk_details |-> r.risk_details ]
    ELSE r

IdCheck(r, id_number) ==
    IF ~Truthy(id_number) THEN r
    ELSE ZeroIdCheck(SuspiciousIdCheck(r, id_number), id_number)

\* mutant of CapScore: the score is not capped
CapScore_None(risk_score) == risk_score

\* min(risk_score, max_score)
CapScore(risk_score) ==
    IF risk_score <= max_risk_score THEN risk_score ELSE max_risk_score

calculate_customer_risk(customer, sanction_matches, now) ==
    LET occupation == Get(customer, "occupation", <<>>)
    IN  \* None.lower()
        IF ~IsStr(occupation) THEN Raised("AttributeError")
        ELSE LET r1 == PepCheck(RiskStart, Lower(occupation))
                 r2 == CountryCheck(r1, Get(customer, "nationality_code", <<>>))
                 r3 == MatchesCheck(r2, sanction_matches, 1)
                 r4 == AgeCheck(r3, GetOrNone(customer, "date_of_birth"), now)
                 r5 == IdCheck(r4, Get(customer, "id_number", <<>>))
                 risk_score == CapScore(r5.risk_score)
             IN  [ risk_score   |-> risk_score,
                   risk_level   |-> determine_risk_level(risk_score),
                   risk_factors |-> r5.risk_factors,
                   risk_details |-> r5.risk_details ]

---------------------------------------------------------------------------
(* ValidationUtils and KYCScreeningTool._validate_customer_data *)

UpperChar(c) ==
    IF IsLower(c)
    THEN UpperLetters[CHOOSE i \in 1..26 : LowerLetters[i] = c]
    ELSE c

\* str.upper()
Upper(s) == [i \in 1..Len(s) |-> UpperChar(s[i])]

\* the outcome of datetime(year, month, day): FALSE is its ValueError
IsCalendarDate(year, month, day) ==
    /\ year >= 1
    /\ month \in 1..12
    /\ day >= 1
    /\ day <= DaysInMonth(year, month)

\* the boolean of the (is_valid, message) pair
validate_id_number(id_number, id_type) ==
    IF ~Truthy(id_number) THEN FALSE
    ELSE LET id == Strip(id_number)
             type == Upper(id_type)
         IN  IF type = <<"N","A","T","I","O","N","A","L","_","I","D">>
             THEN /\ Len(id) = 14
                  /\ AllDigits(id)
                  /\ DigitValue(id[1]) \in {2, 3}
                  /\ IsCalendarDate(ToInt(SubSeq(id, 2, 3))
                                      + (IF DigitValue(id[1]) = 2 THEN 1900 ELSE 2000),
                                    ToInt(SubSeq(id, 4, 5)),
                                    ToInt(SubSeq(id, 6, 7)))
             ELSE IF type = <<"P","A","S","S","P","O","R","T">>
             THEN /\ Len(id) >= 6
                  \* ^[A-Za-z][A-Za-z0-9]*$
                  /\ IsAlpha(id[1])
                  /\ \A i \in 1..Len(id) : IsAlpha(id[i]) \/ IsDigit(id[i])
             ELSE Len(id) >= 4

validate_nationality_code(country_code) ==
    /\ Truthy(country_code)
    /\ Len(country_code) = 2
    /\ \A i \in 1..2 : IsAlpha(country_code[i])
    /\ \A i \in 1..2 : IsUpper(country_code[i])

\* DateUtils.is_date_valid
is_date_valid(date_str) == Truthy(date_str) /\ strptime(date_str) # NoDate

required_fields == <<"customer_code", "full_name_en", "nationality_code", "id_number">>

\* the elements of seq that satisfy keep, in order
RECURSIVE Filter(_, _)
Filter(seq, keep) ==
    IF seq = <<>> THEN <<>>
    ELSE (IF keep[1] THEN <<Head(seq)>> ELSE <<>>) \o Filter(Tail(seq), Tail(keep))

validate_customer_data(customer) ==
    LET missing == [k \in 1..Len(required_fields) |->
                        ~Truthy(GetOrNone(customer, required_fields[k]))]
        id_valid == validate_id_number(GetOrNone(customer, "id_number"),
                                       Get(customer, "id_type", <<"P","A","S","S","P","O","R","T">>))
        dob == GetOrNone(customer, "date_of_birth")
        nationality == Get(customer, "nationality_code", <<>>)
        errors ==
            [k \in 1..Len(required_fields) |-> <<"Missing required field", required_fields[k]>>]
        all_errors ==
            Filter(errors, missing)
            \o (IF id_valid THEN <<>> ELSE << <<"ID Validation">> >>)
            \o (IF validate_nationality_code(nationality) THEN <<>>
                ELSE << <<"Invalid nationality code">> >>)
        warnings ==
            (IF Truthy(dob) /\ ~is_date_valid(dob)
             THEN << <<"Date of birth format is invalid">> >> ELSE <<>>)
            \o (IF \E k \in 1..Len(HIGH_RISK_COUNTRIES) : HIGH_RISK_COUNTRIES[k] = nationality
                THEN << <<"Customer from high-risk country">> >> ELSE <<>>)
            \o (IF contains_pep_indicator(Get(customer, "occupation", <<>>), PEP_INDICATORS)
                THEN << <<"Customer may be a PEP">> >> ELSE <<>>)
    IN  [is_valid |-> all_errors = <<>>, errors |-> all_errors, warnings |-> warnings]

---------------------------------------------------------------------------
(* KYCDatabase.search_sanctions: the rows whose English or Arabic name or   *)
(* alias is LIKE %search_term%, ORDER BY risk_level DESC, full_name_en,     *)
(* LIMIT 50.                                                                *)

search_limit == 50

\* SQLite's LIKE: % is any run of characters, _ any one character, letters
\* compare without case
RECURSIVE LikeFrom(_, _, _, _)
LikeFrom(pattern, i, value, j) ==
    IF i > Len(pattern) THEN j > Len(value)
    ELSE IF pattern[i] = "%"
         THEN \E k \in j..(Len(value) + 1) : LikeFrom(pattern, i + 1, value, k)
    ELSE /\ j <= Len(value)
         /\ (pattern[i] = "_" \/ LowerChar(pattern[i]) = LowerChar(value[j]))
         /\ LikeFrom(pattern, i + 1, value, j + 1)

\* value LIKE pattern; a NULL value is not LIKE anything
Like(value, pattern) == IsStr(value) /\ LikeFrom(pattern, 1, value, 1)

\* the characters of the model in code-point order (BINARY collation)
CodePoints ==
    <<"\t", " ", "%", "-", ".", "/">> \o Digits \o UpperLetters \o <<"_">> \o LowerLetters

CodePoint(c) == CHOOSE i \in 1..Len(CodePoints) : CodePoints[i] = c

RECURSIVE TextLess(_, _)
TextLess(a, b) ==
    IF b = <<>> THEN FALSE
    ELSE IF a = <<>> THEN TRUE
    ELSE IF a[1] = b[1] THEN TextLess(Tail(a), Tail(b))
    ELSE CodePoint(a[1]) < CodePoint(b[1])

\* the place of a risk_level among the values its CHECK constraint allows,
\* as texts in ascending order
RiskLevelRank(level) ==
    CASE level = "CRITICAL" -> 1
      [] level = "HIGH"     -> 2
      [] level = "LOW"      -> 3
      [] level = "MEDIUM"   -> 4

\* row r comes before row q in ORDER BY risk_level DESC, full_name_en; rows
\* equal in both columns are taken in rowid order
RowBefore(r, q) ==
    IF r.risk_level # q.risk_level
    THEN RiskLevelRank(r.risk_level) > RiskLevelRank(q.risk_level)
    ELSE IF r.full_name_en # q.full_name_en
    THEN TextLess(r.full_name_en, q.full_name_en)
    ELSE r.id < q.id

RECURSIVE OrderRows(_)
OrderRows(rows) ==
    IF rows = {} THEN <<>>
    ELSE LET first == CHOOSE r \in rows : \A q \in rows \ {r} : RowBefore(r, q)
         IN  <<first>> \o OrderRows(rows \ {first})

search_sanctions(table, search_term) ==
    LET search_pattern == <<"%">> \o search_term \o <<"%">>
        found == {r \in table :
                    \/ Like(r.full_name_en, search_pattern)
                    \/ Like(r.full_name_ar, search_pattern)
                    \/ Like(r.alias_en, search_pattern)
                    \/ Like(r.alias_ar, search_pattern)}
        ordered == OrderRows(found)
    IN  IF Len(ordered) <= search_limit THEN ordered
        ELSE SubSeq(ordered, 1, search_limit)

---------------------------------------------------------------------------
(* Inputs of the screening run: what the operator types and what the       *)
(* sanctions table holds                                                   *)

MaxTable == 2

Todays == { [year |-> 2026, month |-> 11, day |-> 3] }

\* rows 1 and 2 are rows of load_sample_sanctions; the others are rows whose
\* name contains a customer's name and scores below, or just above, the
\* threshold
SanctionRows ==
    { [ id |-> 1, list_source |-> <<"O","F","A","C">>,
        full_name_en |-> <<"A","h","m","e","d"," ","A","l","i"," ","A","l","-","M","a","s","r","i">>,
        full_name_ar |-> None, alias_ar |-> None,
        alias_en |-> <<"A","h","m","e","d"," ","A","l","-","M","a","s","r","i">>,
        nationality_code |-> <<"E","G">>, date_of_birth |-> <<"1","9","8","0","-","0","5","-","1","5">>,
        risk_level |-> "HIGH" ],
      [ id |-> 2, list_source |-> <<"O","F","A","C">>,
        full_name_en |-> <<"M","o","h","a","m","e","d"," ","H","a","s","s","a","n">>,
        full_name_ar |-> None, alias_ar |-> None,
        alias_en |-> <<>>,
        nationality_code |-> <<"S","Y">>, date_of_birth |-> <<"1","9","7","5","-","1","1","-","2","2">>,
        risk_level |-> "HIGH" ],
      [ id |-> 3, list_source |-> <<"U","N">>,
        full_name_en |-> <<"A","h","m","e","d"," ","A","l","-","M","a","s","r","i"," ","J","r">>,
        full_name_ar |-> None, alias_ar |-> None,
        alias_en |-> None,
        nationality_code |-> <<"E","G">>, date_of_birth |-> None,
        risk_level |-> "MEDIUM" ],
      [ id |-> 4, list_source |-> <<"E","U">>,
        full_name_en |-> <<"M","o","h","a","m","e","d"," ","H","a","s","s","a","n"," ","A","b","d","e","l","-","A","z","e","e","z">>,
        full_name_ar |-> None, alias_ar |-> None,
        alias_en |-> None,
        nationality_code |-> <<"S","Y">>, date_of_birth |-> <<"1","9","8","0","-","0","5","-","1","5">>,
        risk_level |-> "CRITICAL" ],
      [ id |-> 5, list_source |-> <<"U","K">>,
        full_name_en |-> <<"M","o","h","a","m","e","d"," ","H","a","s","s","a","n"," ","A","l","i">>,
        full_name_ar |-> None, alias_ar |-> None,
        alias_en |-> <<>>,
        nationality_code |-> <<"E","G">>, date_of_birth |-> <<"1","9","8","0","-","0","5","-","1","5">>,
        risk_level |-> "LOW" ] }

SanctionTables == {t \in SUBSET SanctionRows : Cardinality(t) <= MaxTable}

CollectedNames == { <<>>, <<"A","h","m","e","d"," ","A","l","-","M","a","s","r","i">>, <<"M","o","h","a","m","e","d"," ","H","a","s","s","a","n">> }
CollectedBirthDates ==
    { None,
      <<"1","9","8","0","-","0","5","-","1","5">>,
      <<"1","9","7","5","-","1","1","-","2","2">>,
      <<"1","9","5","0","-","0","1","-","0","1">>,
      <<"1","5","/","0","5","/","1","9","8","0">> }
CollectedNationalities == { <<"E","G">>, <<"S","Y">>, <<"E">> }
CollectedOccupations == { None, <<"A","c","c","o","u","n","t","a","n","t">>, <<"M","i","n","i","s","t","e","r"," ","o","f"," ","F","i","n","a","n","c","e">> }
CollectedIds ==
    { [id_type |-> <<"P","A","S","S","P","O","R","T">>, id_number |-> <<"A","1","2","3","4","5","6","7","8">>],
      [id_type |-> <<"P","A","S","S","P","O","R","T">>, id_number |-> <<"A","1">>],
      [id_type |-> <<"O","T","H","E","R">>, id_number |-> <<"0","0","0","0">>] }

\* _collect_customer_information: every key is set; an optional answer left
\* empty is None, the customer code is never empty
CollectedCustomers ==
    { [ customer_code    |-> <<"C","U","S","T","1">>,
        full_name_en     |-> n,
        full_name_ar     |-> None,
        date_of_birth    |-> d,
        nationality_code |-> c,
        id_type          |-> i.id_type,
        id_number        |-> i.id_number,
        occupation       |-> o ] :
      n \in CollectedNames, d \in CollectedBirthDates,
      c \in CollectedNationalities, o \in CollectedOccupations,
      i \in CollectedIds }

NoDict == <<>>
Unset == "<unset>"

---------------------------------------------------------------------------
(* KYCScreeningTool.screen_new_customer, step by step *)

Init ==
    /\ pc = "collect"
    /\ today \in Todays
    /\ sanctions_table \in SanctionTables
    /\ customer_data = NoDict
    /\ validation_result = NoDict
    /\ sanctions = <<>>
    /\ cursor = 1
    /\ evaluated = <<>>
    /\ matches = <<>>
    /\ risk_assessment = NoDict
    /\ screening_result = Unset
    /\ report_generated = FALSE
    /\ customer_saved = FALSE
    /\ args = <<>>
    /\ result = Unset

CollectCustomerInformation ==
    /\ pc = "collect"
    /\ customer_data' \in CollectedCustomers
    /\ pc' = "validate"
    /\ UNCHANGED <<args, result, today, sanctions_table, validation_result, sanctions, cursor, evaluated,
                   evaluated, matches, risk_assessment, screening_result,
                   report_generated, customer_saved>>

\* mutant of ValidateCustomerData: the run goes on whatever the validation says
ValidateCustomerData_NoReturn ==
    /\ pc = "validate"
    /\ validation_result' = validate_customer_data(customer_data)
    /\ pc' = "search"
    /\ UNCHANGED <<args, result, today, sanctions_table, customer_data, sanctions, cursor,
                   evaluated, matches, risk_assessment, screening_result,
                   report_generated, customer_saved>>

\* a failed validation prints the errors and returns
ValidateCustomerData ==
    /\ pc = "validate"
    /\ validation_result' = validate_customer_data(customer_data)
    /\ pc' = IF validation_result'.is_valid THEN "search" ELSE "invalid"
    /\ UNCHANGED <<args, result, today, sanctions_table, customer_data, sanctions, cursor,
                   evaluated, matches, risk_assessment, screening_result,
                   report_generated, customer_saved>>

\* _perform_sanctions_screening up to its loop: the search, which returns []
\* when the database fails
SearchSanctions ==
    /\ pc = "search"
    /\ \E db_ok \in BOOLEAN :
          sanctions' =
            IF Truthy(Get(customer_data, "full_name_en", <<>>)) /\ db_ok
            THEN search_sanctions(sanctions_table, customer_data.full_name_en)
            ELSE <<>>
    /\ cursor' = 1
    /\ evaluated' = <<>>
    /\ matches' = <<>>
    /\ pc' = IF sanctions' = <<>> THEN "assess" ELSE "check"
    /\ UNCHANGED <<args, result, today, sanctions_table, customer_data, validation_result,
                   risk_assessment, screening_result, report_generated,
                   customer_saved>>

\* mutants of RetainMatch: a verdict is kept only while none is retained;
\* every verdict is kept
RetainMatch_FirstOnly(match_list, match_result) ==
    IF match_result.is_match /\ match_list = <<>>
    THEN Append(match_list, match_result)
    ELSE match_list

RetainMatch_All(match_list, match_result) == Append(match_list, match_result)

\* if match_result['is_match']: matches.append(match_result)
RetainMatch(match_list, match_result) ==
    IF match_result.is_match THEN Append(match_list, match_result) ELSE match_list

\* one turn of the loop of _perform_sanctions_screening
CheckSanctionMatch ==
    /\ pc = "check"
    /\ evaluated' = Append(evaluated, GetOrNone(sanctions[cursor], "id"))
    /\ LET match_result == check_sanction_match(customer_data, sanctions[cursor])
       IN  IF IsRaised(match_result)
           THEN /\ pc' = "error"
                /\ UNCHANGED <<matches, cursor>>
           ELSE /\ matches' = RetainMatch(matches, match_result)
                /\ cursor' = cursor + 1
                /\ pc' = IF cursor = Len(sanctions) THEN "assess" ELSE "check"
    /\ UNCHANGED <<args, result, today, sanctions_table, customer_data, validation_result,
                   sanctions, risk_assessment, screening_result,
                   report_generated, customer_saved>>

CalculateRisk ==
    /\ pc = "assess"
    /\ LET r == calculate_customer_risk(customer_data, matches, today)
       IN  IF IsRaised(r)
           THEN /\ pc' = "error"
                /\ UNCHANGED risk_assessment
           ELSE /\ risk_assessment' = r
                /\ pc' = "determine"
    /\ UNCHANGED <<args, result, today, sanctions_table, customer_data, validation_result,
                   sanctions, cursor, evaluated, matches, screening_result,
                   report_generated, customer_saved>>

DetermineScreeningResult ==
    /\ pc = "determine"
    /\ screening_result' = determine_screening_result(matches, risk_assessment)
    /\ pc' = "report"
    /\ UNCHANGED <<args, result, today, sanctions_table, customer_data, validation_result,
                   sanctions, cursor, evaluated, matches, risk_assessment,
                   report_generated, customer_saved>>

\* _save_screening_results, _display_screening_results and
\* _generate_screening_report; writing the report file can fail
GenerateScreeningReport ==
    /\ pc = "report"
    /\ \E written \in BOOLEAN :
          /\ report_generated' = written
          /\ pc' = IF written THEN "ask_save" ELSE "error"
    /\ UNCHANGED <<args, result, today, sanctions_table, customer_data, validation_result,
                   sanctions, cursor, evaluated, matches, risk_assessment,
                   screening_result, customer_saved>>

\* mutant of SaveOffered: every disposition but REJECTED
SaveOffered_NotRejected(disposition) == disposition # "REJECTED"

\* if screening_result in ['CLEAR', 'CLEAR_WITH_WARNING']
SaveOffered(disposition) == disposition \in {"CLEAR", "CLEAR_WITH_WARNING"}

\* the save prompt is shown only for the dispositions of SaveOffered
AskSaveCustomer ==
    /\ pc = "ask_save"
    /\ pc' = IF SaveOffered(screening_result) THEN "save_prompt" ELSE "done"
    /\ UNCHANGED <<args, result, today, sanctions_table, customer_data, validation_result,
                   sanctions, cursor, evaluated, matches, risk_assessment,
                   screening_result, report_generated, customer_saved>>

\* the operator's answer: db.add_customer is called when it is y
AnswerSavePrompt ==
    /\ pc = "save_prompt"
    /\ \E save_choice \in BOOLEAN :
          pc' = IF save_choice THEN "add_customer" ELSE "done"
    /\ UNCHANGED <<args, result, today, sanctions_table, customer_data, validation_result,
                   sanctions, cursor, evaluated, matches, risk_assessment,
                   screening_result, report_generated, customer_saved>>

\* db.add_customer returns (success, message)
AddCustomer ==
    /\ pc = "add_customer"
    /\ \E success \in BOOLEAN : customer_saved' = success
    /\ pc' = "done"
    /\ UNCHANGED <<args, result, today, sanctions_table, customer_data, validation_result,
                   sanctions, cursor, evaluated, matches, risk_assessment,
                   screening_result, report_generated>>

Next ==
    \/ CollectCustomerInformation
    \/ ValidateCustomerData
    \/ SearchSanctions
    \/ CheckSanctionMatch
    \/ CalculateRisk
    \/ DetermineScreeningResult
    \/ GenerateScreeningReport
    \/ AskSaveCustomer
    \/ AnswerSavePrompt
    \/ AddCustomer

Spec == Init /\ [][Next]_vars

---------------------------------------------------------------------------
(* _check_sanction_match called on its own: one customer, one entry *)

\* normalised, the first name scores 100, 95 and 85 against the first three
\* entry names
MatchCustomerNames ==
    { <<"A","b","d","u","l","r","a","h","m","a","n"," ","A","l","-","M","a","s","r","i">>,
      <<"D","r","."," ","A","h","m","e","d"," ","A","l","-","M","a","s","r","i">>,
      <<>> }

MatchEntryNames ==
    { <<"A","B","D","U","L","R","A","H","M","A","N"," ","A","L"," ","M","A","S","R","I">>,
      <<"A","b","d","u","l","r","a","h","m","a","n"," ","A","l","-","N","a","s","r","i">>,
      <<"A","b","d","e","l","r","a","h","m","u","n"," ","A","l","-","N","a","s","r","i">>,
      <<"A","h","m","e","d"," ","A","l","i"," ","A","l","-","M","a","s","r","i">>,
      <<"I","v","a","n"," ","P","e","t","r","o","v">>,
      \* nothing is left of it after normalization
      <<"D","r",".">> }

MatchAliases == { None, <<>>, <<"A","h","m","e","d"," ","A","l","-","M","a","s","r","i">>, <<"A","b","d","u","l","r","a","h","m","a","n"," ","A","l","-","N","a","s","r","i">> }
MatchBirthDates == { None, <<"1","9","8","0","-","0","5","-","1","5">>, <<"1","9","7","5","-","1","1","-","2","2">> }
MatchNationalities == { <<"E","G">>, <<"S","Y">> }

MatchCustomers ==
    { [full_name_en |-> n, date_of_birth |-> d, nationality_code |-> c] :
      n \in MatchCustomerNames, d \in MatchBirthDates, c \in MatchNationalities }

MatchEntries ==
    { [ id |-> 1, list_source |-> <<"O","F","A","C">>, full_name_en |-> n, alias_en |-> a,
        date_of_birth |-> d, nationality_code |-> c, risk_level |-> "HIGH" ] :
      n \in MatchEntryNames, a \in MatchAliases,
      d \in MatchBirthDates, c \in MatchNationalities }

InitMatch ==
    /\ pc = "call"
    /\ today \in Todays
    /\ sanctions_table = {}
    /\ customer_data \in MatchCustomers
    /\ validation_result = NoDict
    /\ sanctions \in {<<e>> : e \in MatchEntries}
    /\ cursor = 1
    /\ evaluated = <<>>
    /\ matches = <<>>
    /\ risk_assessment = NoDict
    /\ screening_result = Unset
    /\ report_generated = FALSE
    /\ customer_saved = FALSE
    /\ args = <<>>
    /\ result = Unset

\* the verdict is kept in matches whatever its is_match is
CallCheckSanctionMatch ==
    /\ pc = "call"
    /\ matches' = <<check_sanction_match(customer_data, sanctions[1])>>
    /\ pc' = "returned"
    /\ UNCHANGED <<args, result, today, sanctions_table, customer_data, validation_result,
                   sanctions, cursor, evaluated, risk_assessment, screening_result,
                   report_generated, customer_saved>>

SpecMatch == InitMatch /\ [][CallCheckSanctionMatch]_vars

---------------------------------------------------------------------------
(* calculate_customer_risk called on its own: any customer, any verdicts *)

MaxMatches == 2

RiskOccupations == { None, <<>>, <<"A","c","c","o","u","n","t","a","n","t">>, <<"M","i","n","i","s","t","e","r"," ","o","f"," ","F","i","n","a","n","c","e">>, <<"V","i","k","i","n","g">> }
RiskNationalities == { <<"E","G">>, <<"S","Y">> }
\* no date; ages of 76, of 70 on the birthday and of 70 on the eve of the
\* 71st birthday; a date that is not in the format
RiskBirthDates ==
    { None, <<"1","9","5","0","-","0","1","-","0","1">>,
      <<"1","9","5","6","-","1","1","-","0","3">>, <<"1","9","5","5","-","1","1","-","0","4">>,
      <<"1","5","/","0","5","/","1","9","8","0">> }
\* many and few distinct characters, zeros only, digits in groups with dashes
RiskIdNumbers ==
    { <<"A","1","2","3","4","5","6","7","8">>, <<"0","0","0","0">>,
      <<"A","1","A","1","A","1">>, <<"1","1","-","2","2","-","3","3">> }

\* with and without the occupation key
RiskCustomers ==
    { [ occupation |-> o, nationality_code |-> c, date_of_birth |-> d,
        id_number |-> i ] :
      o \in RiskOccupations, c \in RiskNationalities,
      d \in RiskBirthDates, i \in RiskIdNumbers }
    \cup
    { [nationality_code |-> c, date_of_birth |-> None, id_number |-> <<"A","1","2","3","4","5","6","7","8">>] :
      c \in RiskNationalities }

\* verdicts as far as the risk calculation and the disposition read them
GivenVerdicts ==
    { [match_type |-> t, sanction_name |-> <<"A","h","m","e","d"," ","A","l","i"," ","A","l","-","M","a","s","r","i">>] :
      t \in {"EXACT", "PARTIAL", "NO_MATCH"} }

\* a verdict without a match_type
UntypedVerdict == [sanction_name |-> <<"A","h","m","e","d"," ","A","l","i"," ","A","l","-","M","a","s","r","i">>]

SeqsUpTo(S, n) == UNION {[1..k -> S] : k \in 0..n}

InitRisk ==
    /\ pc = "call"
    /\ today \in Todays
    /\ sanctions_table = {}
    /\ customer_data \in RiskCustomers
    /\ validation_result = NoDict
    /\ sanctions = <<>>
    /\ cursor = 1
    /\ evaluated = <<>>
    /\ matches \in SeqsUpTo(GivenVerdicts \cup {UntypedVerdict}, MaxMatches)
    /\ risk_assessment = NoDict
    /\ screening_result = Unset
    /\ report_generated = FALSE
    /\ customer_saved = FALSE
    /\ args = <<>>
    /\ result = Unset

CallCalculateRisk ==
    /\ pc = "call"
    /\ risk_assessment' = calculate_customer_risk(customer_data, matches, today)
    /\ pc' = "returned"
    /\ UNCHANGED <<args, result, today, sanctions_table, customer_data, validation_result,
                   sanctions, cursor, evaluated, matches, screening_result,
                   report_generated, customer_saved>>

SpecRisk == InitRisk /\ [][CallCalculateRisk]_vars

---------------------------------------------------------------------------
(* _determine_screening_result called on its own: any verdicts, any level *)

RiskLevels == {"VERY_LOW", "LOW", "MEDIUM", "HIGH", "CRITICAL"}

\* with and without the risk_level key
GivenAssessments == {[risk_level |-> l] : l \in RiskLevels} \cup {NoDict}

InitDisposition ==
    /\ pc = "call"
    /\ today \in Todays
    /\ sanctions_table = {}
    /\ customer_data = NoDict
    /\ validation_result = NoDict
    /\ sanctions = <<>>
    /\ cursor = 1
    /\ evaluated = <<>>
    /\ matches \in SeqsUpTo(GivenVerdicts, MaxMatches)
    /\ risk_assessment \in GivenAssessments
    /\ screening_result = Unset
    /\ report_generated = FALSE
    /\ customer_saved = FALSE
    /\ args = <<>>
    /\ result = Unset

CallDetermineScreeningResult ==
    /\ pc = "call"
    /\ screening_result' = determine_screening_result(matches, risk_assessment)
    /\ pc' = "returned"
    /\ UNCHANGED <<args, result, today, sanctions_table, customer_data, validation_result,
                   sanctions, cursor, evaluated, matches, risk_assessment,
                   report_generated, customer_saved>>

SpecDisposition == InitDisposition /\ [][CallDetermineScreeningResult]_vars

---------------------------------------------------------------------------
(* StringUtils._token_sort_ratio *)

\* sorted(): the tokens in ascending order of their code points
RECURSIVE InsertSorted(_, _)
InsertSorted(token, sorted) ==
    IF sorted = <<>> THEN <<token>>
    ELSE IF TextLess(token, sorted[1]) THEN <<token>> \o sorted
    ELSE <<sorted[1]>> \o InsertSorted(token, Tail(sorted))

RECURSIVE Sorted(_)
Sorted(tokens) ==
    IF tokens = <<>> THEN <<>>
    ELSE InsertSorted(tokens[1], Sorted(Tail(tokens)))

\* mutant of token_sort_ratio: the tokens are joined in the order they come
token_sort_ratio_Unsorted(str1, str2) ==
    similarity_ratio(JoinSpace(Split(str1)), JoinSpace(Split(str2)))

token_sort_ratio(str1, str2) ==
    LET tokens1 == Sorted(Split(str1))
        tokens2 == Sorted(Split(str2))
        sorted1 == JoinSpace(tokens1)
        sorted2 == JoinSpace(tokens2)
    IN  similarity_ratio(sorted1, sorted2)

(* StringUtils._partial_ratio *)

\* mutant of partial_ratio: the last window of the longer string is left out
partial_ratio_ShortRange(str1, str2) ==
    LET shorter == IF Len(str1) <= Len(str2) THEN str1 ELSE str2
        longer == IF Len(str1) <= Len(str2) THEN str2 ELSE str1
        m == Len(shorter)
        scores == {similarity_ratio(shorter, SubSeq(longer, i, i + m - 1)) :
                      i \in 1..(Len(longer) - m)}
    IN  IF scores = {} THEN RatInt(0)
        ELSE CHOOSE score \in scores : \A other \in scores : RatGE(score, other)

partial_ratio(str1, str2) ==
    LET shorter == IF Len(str1) <= Len(str2) THEN str1 ELSE str2
        longer == IF Len(str1) <= Len(str2) THEN str2 ELSE str1
        m == Len(shorter)
        \* range(len(longer) - m + 1), from 0, is 1..(Len(longer) - m + 1) here
        scores == {similarity_ratio(shorter, SubSeq(longer, i, i + m - 1)) :
                      i \in 1..(Len(longer) - m + 1)}
    IN  IF scores = {} THEN RatInt(0)
        ELSE CHOOSE score \in scores : \A other \in scores : RatGE(score, other)

---------------------------------------------------------------------------
(* The functions of StringUtils called on their own *)

MaxStr == 3
MaxText == 5
MaxTokens == 2

SimilarityStrings == SeqsUpTo({"a", "b", " "}, MaxStr)

\* letters of the titles mr, ms, mrs and dr, in both cases, a dot and a space
NormalizeTexts == SeqsUpTo({"m", "r", "s", "D", ".", " "}, MaxText)

\* sorted() puts "B" before "ab" before "b"
Tokens == {<<"a", "b">>, <<"b">>, <<"B">>}

TokenTexts == {JoinSpace(tokens) : tokens \in SeqsUpTo(Tokens, MaxTokens)}

InitCall(arguments) ==
    /\ pc = "call"
    /\ today \in Todays
    /\ sanctions_table = {}
    /\ customer_data = NoDict
    /\ validation_result = NoDict
    /\ sanctions = <<>>
    /\ cursor = 1
    /\ evaluated = <<>>
    /\ matches = <<>>
    /\ risk_assessment = NoDict
    /\ screening_result = Unset
    /\ report_generated = FALSE
    /\ customer_saved = FALSE
    /\ args \in arguments
    /\ result = Unset

Return(value) ==
    /\ pc = "call"
    /\ result' = value
    /\ pc' = "returned"
    /\ UNCHANGED <<args, today, sanctions_table, customer_data, validation_result,
                   sanctions, cursor, evaluated, matches, risk_assessment,
                   screening_result, report_generated, customer_saved>>

InitSimilarity == InitCall(SimilarityStrings \X SimilarityStrings)

CallSimilarityRatio == Return(similarity_ratio(args[1], args[2]))

SpecSimilarity == InitSimilarity /\ [][CallSimilarityRatio]_vars

CallPartialRatio == Return(partial_ratio(args[1], args[2]))

SpecPartialRatio == InitSimilarity /\ [][CallPartialRatio]_vars

InitNormalize == InitCall({<<text>> : text \in NormalizeTexts})

CallNormalizeEnglish == Return(normalize_english(args[1]))

SpecNormalize == InitNormalize /\ [][CallNormalizeEnglish]_vars

InitTokenSort == InitCall(TokenTexts \X TokenTexts)

CallTokenSortRatio == Return(token_sort_ratio(args[1], args[2]))

SpecTokenSort == InitTokenSort /\ [][CallTokenSortRatio]_vars

---------------------------------------------------------------------------
(* The loop of _perform_sanctions_screening run on its own: any list of
   candidates, well formed or not *)

MaxCandidates == 2

ScreeningCustomers ==
    { [full_name_en |-> <<"A","h","m","e","d"," ","A","l","-","M","a","s","r","i">>, date_of_birth |-> d, nationality_code |-> <<"E","G">>] :
      d \in {None, <<"1","9","8","0","-","0","5","-","1","5">>} }

\* a matching entry, an entry that does not match, and matching entries
\* without an id, with None for a name, and without the alias key
ScreeningCandidates ==
    { [ id |-> 1, full_name_en |-> <<"A","h","m","e","d"," ","A","l","-","M","a","s","r","i">>, alias_en |-> None,
        date_of_birth |-> <<"1","9","8","0","-","0","5","-","1","5">>, nationality_code |-> <<"E","G">>,
        list_source |-> <<"O","F","A","C">>, risk_level |-> "HIGH" ],
      [ id |-> 2, full_name_en |-> <<"I","v","a","n"," ","P","e","t","r","o","v">>, alias_en |-> None,
        date_of_birth |-> None, nationality_code |-> <<"E","G">>,
        list_source |-> <<"O","F","A","C">>, risk_level |-> "HIGH" ],
      [ full_name_en |-> <<"A","h","m","e","d"," ","A","l","-","M","a","s","r","i">>, alias_en |-> None,
        date_of_birth |-> <<"1","9","8","0","-","0","5","-","1","5">>, nationality_code |-> <<"E","G">>,
        list_source |-> <<"O","F","A","C">>, risk_level |-> "HIGH" ],
      [ id |-> 4, full_name_en |-> None, alias_en |-> <<"A","h","m","e","d"," ","A","l","-","M","a","s","r","i">>,
        date_of_birth |-> None, nationality_code |-> <<"E","G">>,
        list_source |-> <<"O","F","A","C">>, risk_level |-> "HIGH" ],
      [ id |-> 5, full_name_en |-> <<"A","h","m","e","d"," ","A","l","-","M","a","s","r","i">>,
        date_of_birth |-> None, nationality_code |-> <<"E","G">>,
        list_source |-> <<"O","F","A","C">>, risk_level |-> "HIGH" ] }

\* sanctions is the list the loop is about to walk
InitScreening ==
    /\ pc = "check"
    /\ today \in Todays
    /\ sanctions_table = {}
    /\ customer_data \in ScreeningCustomers
    /\ validation_result = NoDict
    /\ sanctions \in SeqsUpTo(ScreeningCandidates, MaxCandidates) \ {<<>>}
    /\ cursor = 1
    /\ evaluated = <<>>
    /\ matches = <<>>
    /\ risk_assessment = NoDict
    /\ screening_result = Unset
    /\ report_generated = FALSE
    /\ customer_saved = FALSE
    /\ args = <<>>
    /\ result = Unset

SpecScreening == InitScreening /\ [][CheckSanctionMatch]_vars

---------------------------------------------------------------------------
(* Properties of _determine_screening_result, under SpecDisposition *)

HasMatchType(match_list, type) ==
    \E i \in 1..Len(match_list) : match_list[i].match_type = type

\* C1: whenever the list of retained verdicts holds at least one EXACT
\* verdict, _determine_screening_result returns REJECTED, whatever the risk
\* level of the assessment is (absent included).
C1_ExactIsRejected ==
    (pc = "returned" /\ HasMatchType(matches, "EXACT"))
        => screening_result = "REJECTED"

\* an EXACT verdict next to the level that alone would ask for a review
C1_Witness ==
    /\ pc = "returned"
    /\ HasMatchType(matches, "EXACT")
    /\ risk_assessment # NoDict
    /\ risk_assessment.risk_level = "CRITICAL"
    /\ screening_result = "REJECTED"

\* the decision list of the specification, each rule with the negation of
\* the rules above it
DecisionList(match_list, assessment) ==
    LET none    == Len(match_list) = 0
        exact   == HasMatchType(match_list, "EXACT")
        high    == /\ "risk_level" \in DOMAIN assessment
                   /\ assessment.risk_level \in {"HIGH", "CRITICAL"}
        partial == HasMatchType(match_list, "PARTIAL")
    IN  CASE none -> "CLEAR"
          [] ~none /\ exact -> "REJECTED"
          [] ~none /\ ~exact /\ high -> "REVIEW_REQUIRED"
          [] ~none /\ ~exact /\ ~high /\ partial -> "CLEAR_WITH_WARNING"
          [] ~none /\ ~exact /\ ~high /\ ~partial -> "CLEAR"

\* C2: the disposition is the first rule that applies of: no retained
\* verdicts -> CLEAR; any EXACT verdict -> REJECTED; risk level HIGH or
\* CRITICAL -> REVIEW_REQUIRED; any PARTIAL verdict -> CLEAR_WITH_WARNING;
\* otherwise CLEAR.
C2_DispositionIsDecisionList ==
    pc = "returned" => screening_result = DecisionList(matches, risk_assessment)

\* the third and the fourth rule both reached: a PARTIAL verdict with a HIGH
\* level is a review
C2_Witness ==
    /\ pc = "returned"
    /\ HasMatchType(matches, "PARTIAL")
    /\ ~HasMatchType(matches, "EXACT")
    /\ risk_assessment # NoDict
    /\ risk_assessment.risk_level = "HIGH"
    /\ screening_result = "REVIEW_REQUIRED"

---------------------------------------------------------------------------
(* Properties of _check_sanction_match, under SpecMatch *)

\* the verdict of the call
Verdict == matches[1]

\* the name score of the specification: the larger of the similarity to the
\* entry's name and to its alias, before any bonus
NameScoreOf(customer, sanction) ==
    LET customer_name == normalize_english(Get(customer, "full_name_en", <<>>))
        by_name  == similarity_ratio(customer_name,
                        normalize_english(Get(sanction, "full_name_en", <<>>)))
        alias    == normalize_english(Get(sanction, "alias_en", <<>>))
    IN  IF alias = <<>> THEN by_name
        ELSE RatMax(by_name, similarity_ratio(customer_name, alias))

InRange(score, low, high) ==
    RatGE(score, RatInt(low)) /\ RatGE(RatInt(high), score)

\* C3: every verdict of _check_sanction_match carries a match score in
\* [0, 100].
C3_MatchScoreBounded ==
    pc = "returned" => InRange(Verdict.match_score, 0, 100)

\* a name score of 95 plus the bonus of 20 is returned as 100
C3_Witness ==
    /\ pc = "returned"
    /\ NameScoreOf(customer_data, sanctions[1]) = RatInt(95)
    /\ Verdict.dob_match
    /\ Verdict.match_score = RatInt(100)

\* C5 as stated: an EXACT verdict has a match score >= 95 and a PARTIAL
\* verdict a match score in [threshold, 95).
C5_AsStated ==
    pc = "returned" =>
        /\ Verdict.match_type = "EXACT"
              => RatGE(Verdict.match_score, RatInt(95))
        /\ Verdict.match_type = "PARTIAL"
              => /\ RatGE(Verdict.match_score, RatInt(name_match_threshold))
                 /\ RatLT(Verdict.match_score, RatInt(95))

\* C5: an EXACT verdict has a match score >= 95; a PARTIAL verdict has a match
\* score in [threshold, 95) when the dates of birth did not match, and a
\* match score of exactly 100 (its name score plus 20, clamped) when they did.
C5_TypeAndReturnedScore ==
    pc = "returned" =>
        /\ Verdict.match_type = "EXACT"
              => RatGE(Verdict.match_score, RatInt(95))
        /\ (Verdict.match_type = "PARTIAL" /\ ~Verdict.dob_match)
              => /\ RatGE(Verdict.match_score, RatInt(name_match_threshold))
                 /\ RatLT(Verdict.match_score, RatInt(95))
        /\ (Verdict.match_type = "PARTIAL" /\ Verdict.dob_match)
              => Verdict.match_score = RatInt(100)

\* a PARTIAL verdict whose returned score is 100
C5_Witness ==
    /\ pc = "returned"
    /\ Verdict.match_type = "PARTIAL"
    /\ Verdict.dob_match
    /\ Verdict.match_score = RatInt(100)

\* C6: the classification follows from the name score alone: >= 95 is EXACT,
\* [85, 95) is PARTIAL, below 85 is NO_MATCH with is_match false; exactly 85
\* is PARTIAL and exactly 95 is EXACT.
C6_ClassifiedByNameScore ==
    pc = "returned" =>
        LET name_score == NameScoreOf(customer_data, sanctions[1])
        IN  /\ RatGE(name_score, RatInt(95))
                  => Verdict.is_match /\ Verdict.match_type = "EXACT"
            /\ (RatGE(name_score, RatInt(85)) /\ RatLT(name_score, RatInt(95)))
                  => Verdict.is_match /\ Verdict.match_type = "PARTIAL"
            /\ RatLT(name_score, RatInt(85))
                  => ~Verdict.is_match /\ Verdict.match_type = "NO_MATCH"

\* a name score of exactly 85 classified PARTIAL, for a customer that some
\* other entry matches at exactly 95 and EXACT
C6_Witness ==
    /\ pc = "returned"
    /\ NameScoreOf(customer_data, sanctions[1]) = RatInt(85)
    /\ Verdict.match_type = "PARTIAL"
    /\ \E e \in MatchEntries :
          /\ NameScoreOf(customer_data, e) = RatInt(95)
          /\ check_sanction_match(customer_data, e).match_type = "EXACT"

\* C7: equal (present) dates of birth add 20 to the match score before it is
\* clamped and set dob_match; the bonus changes neither is_match nor
\* match_type; equal nationalities are recorded as a boolean and change no
\* score.
C7_DobBonusAndNationality ==
    pc = "returned" =>
        LET name_score == NameScoreOf(customer_data, sanctions[1])
            dob        == customer_data.date_of_birth
        IN  /\ (dob # None /\ dob = sanctions[1].date_of_birth)
                  => /\ Verdict.dob_match
                     /\ Verdict.match_score
                          = RatMin(RatAdd(name_score, RatInt(20)), RatInt(100))
            /\ ~Verdict.dob_match => Verdict.match_score = name_score
            /\ \A d \in MatchBirthDates :
                  LET other == check_sanction_match(
                                   [customer_data EXCEPT !.date_of_birth = d],
                                   sanctions[1])
                  IN  /\ other.is_match = Verdict.is_match
                      /\ other.match_type = Verdict.match_type
            /\ Verdict.nationality_match
                  = (customer_data.nationality_code = sanctions[1].nationality_code)
            /\ \A c \in MatchNationalities :
                  LET other == check_sanction_match(
                                   [customer_data EXCEPT !.nationality_code = c],
                                   sanctions[1])
                  IN  /\ other.match_score = Verdict.match_score
                      /\ other.name_match_score = Verdict.name_match_score
                      /\ other.match_type = Verdict.match_type

\* a name score of 85 with equal dates of birth and different nationalities:
\* the bonus would lift it over 95, the verdict stays PARTIAL
C7_Witness ==
    /\ pc = "returned"
    /\ NameScoreOf(customer_data, sanctions[1]) = RatInt(85)
    /\ Verdict.dob_match
    /\ ~Verdict.nationality_match
    /\ Verdict.match_type = "PARTIAL"
    /\ Verdict.match_score = RatInt(100)

EmptyAfterNormalization(text) == normalize_english(text) = <<>>

\* C15 as stated: an empty customer name or entry name (after normalization)
\* gives a verdict with score 0, is_match false and NO_MATCH.
C15_AsStated ==
    (pc = "returned"
       /\ ( \/ EmptyAfterNormalization(customer_data.full_name_en)
            \/ EmptyAfterNormalization(sanctions[1].full_name_en) ))
        => /\ Verdict.match_score = RatInt(0)
           /\ ~Verdict.is_match
           /\ Verdict.match_type = "NO_MATCH"

\* C15: when the customer name is empty after normalization, or the entry
\* name and the entry's alias both are, the verdict has name score 0, is_match
\* false and NO_MATCH whatever the dates of birth and nationalities are, and
\* its match score is 0, or 20 when the dates of birth are equal; when only
\* the entry name is empty the name score is 0.
C15_EmptyNameIsNoMatch ==
    pc = "returned" =>
        /\ ( \/ EmptyAfterNormalization(customer_data.full_name_en)
             \/ /\ EmptyAfterNormalization(sanctions[1].full_name_en)
                /\ EmptyAfterNormalization(sanctions[1].alias_en) )
              => /\ Verdict.name_match_score = RatInt(0)
                 /\ ~Verdict.is_match
                 /\ Verdict.match_type = "NO_MATCH"
                 /\ Verdict.match_score
                      = IF Verdict.dob_match THEN RatInt(20) ELSE RatInt(0)
        /\ EmptyAfterNormalization(sanctions[1].full_name_en)
              => Verdict.name_match_score = RatInt(0)

\* an entry with nothing left of its name and no alias, a customer with a
\* name and the entry's date of birth: NO_MATCH with a match score of 20
C15_Witness ==
    /\ pc = "returned"
    /\ ~EmptyAfterNormalization(customer_data.full_name_en)
    /\ sanctions[1].full_name_en # <<>>
    /\ EmptyAfterNormalization(sanctions[1].full_name_en)
    /\ EmptyAfterNormalization(sanctions[1].alias_en)
    /\ Verdict.dob_match
    /\ Verdict.match_type = "NO_MATCH"
    /\ Verdict.match_score = RatInt(20)

---------------------------------------------------------------------------
(* Properties of calculate_customer_risk, under SpecRisk *)

Returned == pc = "returned" /\ ~IsRaised(risk_assessment)

CountOfType(match_list, type) ==
    Cardinality({i \in 1..Len(match_list) :
                    Get(match_list[i], "match_type", "<absent>") = type})

OnlyExactOrPartial(match_list) ==
    \A i \in 1..Len(match_list) :
        Get(match_list[i], "match_type", "<absent>") \in {"EXACT", "PARTIAL"}

\* the signals of a customer that do not come from the verdicts
PepFired(customer) ==
    contains_pep_indicator(Lower(Get(customer, "occupation", <<>>)), PEP_INDICATORS)

CountryFired(customer) ==
    Get(customer, "nationality_code", <<>>) \in Range(HIGH_RISK_COUNTRIES)

AgeFired(customer, now) ==
    LET age == calculate_age(GetOrNone(customer, "date_of_birth"), now)
    IN  age # NoAge /\ age[1] > age_risk_threshold

FewCharsFired(customer) ==
    LET id_number == Get(customer, "id_number", <<>>)
    IN  id_number # <<>> /\ Cardinality(Range(id_number)) <= 3

ZerosFired(customer) ==
    LET id_number == Get(customer, "id_number", <<>>)
    IN  id_number # <<>> /\ Range(id_number) = {"0"}

CustomerPenalties(customer, now) ==
      (IF PepFired(customer) THEN pep_penalty ELSE 0)
    + (IF CountryFired(customer) THEN high_risk_country_penalty ELSE 0)
    + (IF AgeFired(customer, now) THEN 15 ELSE 0)
    + (IF FewCharsFired(customer) THEN unusual_id_penalty ELSE 0)
    + (IF ZerosFired(customer) THEN 20 ELSE 0)

VerdictPenalties(match_list) ==
      CountOfType(match_list, "EXACT") * sanction_match_penalty
    + CountOfType(match_list, "PARTIAL") * partial_match_penalty

Smaller(a, b) == IF a <= b THEN a ELSE b

\* C4: for every customer record and every list of verdicts, the risk_score
\* that calculate_customer_risk returns lies in [0, max_risk_score].
C4_RiskScoreBounded ==
    Returned => risk_assessment.risk_score \in 0..max_risk_score

\* two EXACT verdicts: the penalties add up to twice the maximum
C4_Witness ==
    /\ Returned
    /\ CountOfType(matches, "EXACT") = 2
    /\ VerdictPenalties(matches) > max_risk_score
    /\ risk_assessment.risk_score = max_risk_score

\* C9: for verdicts that are EXACT or PARTIAL, the returned risk score is
\* min(sum of the penalties of the signals that fired, max_risk_score), with
\* pep_penalty for the PEP signal, high_risk_country_penalty for the country
\* signal, sanction_match_penalty per EXACT verdict and partial_match_penalty
\* per PARTIAL verdict; k PARTIAL verdicts and no other signal give
\* min(k * partial_match_penalty, max_risk_score); one more PARTIAL verdict
\* never lowers the score.
C9_ScoreIsCappedSum ==
    (Returned /\ OnlyExactOrPartial(matches)) =>
        /\ risk_assessment.risk_score
             = Smaller(CustomerPenalties(customer_data, today)
                          + VerdictPenalties(matches),
                       max_risk_score)
        /\ ( /\ CustomerPenalties(customer_data, today) = 0
             /\ CountOfType(matches, "EXACT") = 0 )
              => risk_assessment.risk_score
                   = Smaller(Len(matches) * partial_match_penalty, max_risk_score)
        /\ \A v \in GivenVerdicts :
              v.match_type = "PARTIAL" =>
                  calculate_customer_risk(customer_data, Append(matches, v),
                                          today).risk_score
                      >= risk_assessment.risk_score

\* two PARTIAL verdicts and no other signal: twice the partial penalty, which
\* is the maximum
C9_Witness ==
    /\ Returned
    /\ CustomerPenalties(customer_data, today) = 0
    /\ Len(matches) = 2
    /\ CountOfType(matches, "PARTIAL") = 2
    /\ risk_assessment.risk_score = 2 * partial_match_penalty
    /\ risk_assessment.risk_score = max_risk_score

\* the level table of the specification
LevelOfScore(score) ==
    CHOOSE level \in RiskLevels :
        /\ level = "CRITICAL" <=> score >= 80
        /\ level = "HIGH"     <=> (60 <= score /\ score < 80)
        /\ level = "MEDIUM"   <=> (40 <= score /\ score < 60)
        /\ level = "LOW"      <=> (20 <= score /\ score < 40)
        /\ level = "VERY_LOW" <=> score < 20

\* C10: for every risk score in [0, max_risk_score] the level is CRITICAL
\* from 80, HIGH in [60, 80), MEDIUM in [40, 60), LOW in [20, 40) and VERY_LOW
\* below 20; the level that calculate_customer_risk returns is the level of
\* the clamped score it returns.
C10_LevelOfClampedScore ==
    Returned =>
        /\ \A score \in 0..max_risk_score :
              determine_risk_level(score) = LevelOfScore(score)
        /\ risk_assessment.risk_level = LevelOfScore(risk_assessment.risk_score)

\* a returned score on a threshold: PEP and one PARTIAL verdict make 80,
\* which is CRITICAL
C10_Witness ==
    /\ Returned
    /\ risk_assessment.risk_score = 80
    /\ risk_assessment.risk_level = "CRITICAL"

---------------------------------------------------------------------------
(* Properties of _perform_sanctions_screening, under Spec *)

\* the verdicts of the first n candidates, in candidate order
VerdictsOf(customer, candidates, n) ==
    [i \in 1..n |-> check_sanction_match(customer, candidates[i])]

IsRetained(verdict) == verdict.is_match

LoopRunning == pc = "check"
LoopReturned ==
    pc \in {"assess", "determine", "report", "ask_save", "save_prompt",
            "add_customer", "done"}

\* C8: _perform_sanctions_screening evaluates every candidate exactly once
\* and returns exactly the verdicts with is_match true, in candidate order;
\* the list handed to the risk calculation and to the disposition rule never
\* holds a NO_MATCH verdict.
C8_EachOnceMatchesOnly ==
    /\ (LoopRunning \/ LoopReturned) =>
          /\ evaluated = [i \in 1..(cursor - 1) |-> sanctions[i].id]
          /\ matches = SelectSeq(VerdictsOf(customer_data, sanctions, cursor - 1),
                                 IsRetained)
    /\ LoopReturned => cursor - 1 = Len(sanctions)
    /\ \A i \in 1..Len(matches) :
          matches[i].is_match /\ matches[i].match_type # "NO_MATCH"

\* two candidates evaluated, one verdict retained and one discarded
C8_Witness ==
    /\ pc = "assess"
    /\ Len(sanctions) = 2
    /\ Len(evaluated) = 2
    /\ Len(matches) = 1

---------------------------------------------------------------------------
(* Properties of risk_factors and risk_details, under SpecRisk *)

\* the signal a factor string belongs to, by the fixed text it starts with
KindOfFactor(factor) ==
    CASE factor[1] = "PEP - Politically Exposed Person" -> "pep"
      [] factor[1] = "High-risk country: " -> "jurisdiction"
      [] factor[1] \in {"Exact sanction match: ", "Partial sanction match: "} -> "match"
      [] factor[1] = "High age risk: " -> "age"
      [] factor[1] \in {"Suspicious ID number pattern",
                        "ID number contains only zeros"} -> "identifier"
      [] OTHER -> "unknown"

OneIf(fired, kind) == IF fired THEN <<kind>> ELSE <<>>

\* the kinds of the fired signals, in the evaluation order of the specification
FiredSignals(customer, match_list, now) ==
    OneIf(PepFired(customer), "pep")
    \o OneIf(CountryFired(customer), "jurisdiction")
    \o [i \in 1..Len(match_list) |-> "match"]
    \o OneIf(AgeFired(customer, now), "age")
    \o OneIf(FewCharsFired(customer), "identifier")
    \o OneIf(ZerosFired(customer), "identifier")

\* C11: in calculate_customer_risk every fired signal appends exactly one
\* string to risk_factors (the match signal one per verdict): risk_factors has
\* as many strings as signals fired, in the order PEP, jurisdiction, matches
\* in verdict order, age, identifier anomaly.
C11_OneFactorPerSignalInOrder ==
    Returned =>
        LET factors == risk_assessment.risk_factors
        IN  /\ Len(factors) = Len(FiredSignals(customer_data, matches, today))
            /\ [i \in 1..Len(factors) |-> KindOfFactor(factors[i])]
                 = FiredSignals(customer_data, matches, today)
            /\ \A i \in 1..Len(matches) :
                  LET factor == factors[i + Len(OneIf(PepFired(customer_data), "pep"))
                                          + Len(OneIf(CountryFired(customer_data), "jurisdiction"))]
                  IN  factor[2] = matches[i].sanction_name

\* every signal fired, two verdicts: seven strings
C11_Witness ==
    /\ Returned
    /\ PepFired(customer_data) /\ CountryFired(customer_data)
    /\ AgeFired(customer_data, today)
    /\ FewCharsFired(customer_data) /\ ZerosFired(customer_data)
    /\ Len(matches) = 2
    /\ Len(risk_assessment.risk_factors) = 7

\* the keys of risk_details that the other signals write
OtherSignalKeys ==
    {"pep_detected", "pep_penalty", "high_risk_country", "country_penalty",
     "exact_matches", "partial_matches", "age_risk", "suspicious_id"}

\* C12: every signal that fires in calculate_customer_risk has an entry of
\* its own in risk_details that records it; no penalty is added to the score
\* without such an entry.
C12_EveryPenaltyHasDetail ==
    Returned =>
        LET details == risk_assessment.risk_details
        IN  /\ PepFired(customer_data)
                  => /\ Get(details, "pep_detected", FALSE) = TRUE
                     /\ Get(details, "pep_penalty", 0) = pep_penalty
            /\ CountryFired(customer_data)
                  => /\ Get(details, "high_risk_country", FALSE) = TRUE
                     /\ Get(details, "country_penalty", 0) = high_risk_country_penalty
            /\ Len(matches) > 0
                  => Get(details, "exact_matches", 0) + Get(details, "partial_matches", 0)
                       = Len(matches)
            /\ AgeFired(customer_data, today) => "age_risk" \in DOMAIN details
            /\ FewCharsFired(customer_data) => "suspicious_id" \in DOMAIN details
            /\ ZerosFired(customer_data) => DOMAIN details \ OtherSignalKeys # {}

---------------------------------------------------------------------------
(* Properties of a whole screening run, under Spec *)

\* C13: no error is fatal to a screening run: for every validated customer
\* record, optional fields absent or None included, the pipeline of
\* _perform_sanctions_screening, calculate_customer_risk and
\* _determine_screening_result completes and yields a disposition.
C13_AlwaysADisposition ==
    pc = "error" => screening_result # Unset

HasDisposition == screening_result # Unset

\* entry has the customer's name, nationality and date of birth
SameIdentity(customer, entry) ==
    /\ entry.full_name_en = customer.full_name_en
    /\ entry.nationality_code = customer.nationality_code
    /\ customer.date_of_birth # None
    /\ entry.date_of_birth = customer.date_of_birth

\* the occupation of the scenario
MinisterOfFinance ==
    <<"M","i","n","i","s","t","e","r"," ","o","f"," ","F","i","n","a","n","c","e">>

HasFactor(factors, factor) == \E i \in 1..Len(factors) : factors[i] = factor

\* C16 (scenario 1): a customer with the name, nationality and date of birth
\* of a watchlist entry and the occupation 'Minister of Finance' gets an EXACT
\* verdict for that entry with name score 100, dob_match, nationality_match
\* and match score 100; the assessment has the PEP factor and the exact-match
\* factor, risk score 100 (clamped), level CRITICAL; the disposition is
\* REJECTED.
C16_ScenarioSameIdentityPep ==
    (HasDisposition /\ customer_data.occupation = MinisterOfFinance) =>
        \A i \in 1..Len(sanctions) :
            SameIdentity(customer_data, sanctions[i]) =>
                /\ \E j \in 1..Len(matches) :
                      /\ matches[j].sanction_id = sanctions[i].id
                      /\ matches[j].name_match_score = RatInt(100)
                      /\ matches[j].is_match
                      /\ matches[j].match_type = "EXACT"
                      /\ matches[j].dob_match
                      /\ matches[j].nationality_match
                      /\ matches[j].match_score = RatInt(100)
                /\ HasFactor(risk_assessment.risk_factors,
                             <<"PEP - Politically Exposed Person">>)
                /\ HasFactor(risk_assessment.risk_factors,
                             <<"Exact sanction match: ", sanctions[i].full_name_en>>)
                /\ risk_assessment.risk_score = max_risk_score
                /\ risk_assessment.risk_score = 100
                /\ risk_assessment.risk_level = "CRITICAL"
                /\ screening_result = "REJECTED"

\* the run of such a customer has ended, the penalties were over the maximum
C16_Witness ==
    /\ pc = "done"
    /\ customer_data.occupation = MinisterOfFinance
    /\ \E i \in 1..Len(sanctions) : SameIdentity(customer_data, sanctions[i])
    /\ CustomerPenalties(customer_data, today) + VerdictPenalties(matches)
         > max_risk_score
    /\ screening_result = "REJECTED"

\* one candidate, with a name score of 70, for a customer whose only signal
\* is the high-risk country
ScenarioLowScoreCandidate ==
    /\ CountryFired(customer_data)
    /\ CustomerPenalties(customer_data, today) = high_risk_country_penalty
    /\ Len(sanctions) = 1
    /\ NameScoreOf(customer_data, sanctions[1]) = RatInt(70)

\* C17 (scenario 3): a customer from a high-risk country with no other signal
\* and a single candidate of name score 70 gets a verdict with is_match false
\* that is discarded; the risk score is high_risk_country_penalty (25), the
\* level LOW and the disposition CLEAR.
C17_ScenarioLowScoreCandidate ==
    (HasDisposition /\ ScenarioLowScoreCandidate) =>
        /\ ~check_sanction_match(customer_data, sanctions[1]).is_match
        /\ evaluated = <<sanctions[1].id>>
        /\ matches = <<>>
        /\ risk_assessment.risk_score = high_risk_country_penalty
        /\ risk_assessment.risk_score = 25
        /\ risk_assessment.risk_level = "LOW"
        /\ screening_result = "CLEAR"

C17_Witness ==
    /\ pc = "done"
    /\ ScenarioLowScoreCandidate
    /\ evaluated = <<sanctions[1].id>>
    /\ screening_result = "CLEAR"

---------------------------------------------------------------------------
(* The two name similarities of a verdict, under SpecMatch *)

PrimarySimilarity(customer, sanction) ==
    similarity_ratio(normalize_english(customer.full_name_en),
                     normalize_english(sanction.full_name_en))

\* 0 when nothing is left of the alias after normalization
AliasSimilarity(customer, sanction) ==
    IF EmptyAfterNormalization(sanction.alias_en) THEN RatInt(0)
    ELSE similarity_ratio(normalize_english(customer.full_name_en),
                          normalize_english(sanction.alias_en))

WithoutAlias(sanction) ==
    [key \in DOMAIN sanction \ {"alias_en"} |-> sanction[key]]

---------------------------------------------------------------------------
(* The identifier signals of calculate_customer_risk, under SpecRisk *)

\* an identifier without the characters that only format it
RECURSIVE WithoutFormatting(_)
WithoutFormatting(id_number) ==
    IF id_number = <<>> THEN <<>>
    ELSE IF Head(id_number) \in {" ", "-", ".", "/"}
         THEN WithoutFormatting(Tail(id_number))
         ELSE <<Head(id_number)>> \o WithoutFormatting(Tail(id_number))

\* C24: when the identifier, after removing formatting characters, has 3 or
\* fewer distinct characters, calculate_customer_risk adds unusual_id_penalty;
\* when it is all zeros it adds a separate 20; both can fire for one
\* identifier; an identifier with more than 3 distinct characters that is not
\* all zeros adds nothing.
C24_IdentifierAnomaly ==
    Returned =>
        LET id_number == customer_data.id_number
            few   == Cardinality(Range(WithoutFormatting(id_number))) <= 3
            zeros == Range(id_number) = {"0"}
            factors == risk_assessment.risk_factors
            no_id == calculate_customer_risk([customer_data EXCEPT !.id_number = <<>>],
                                             <<>>, today)
        IN  /\ HasFactor(factors, <<"Suspicious ID number pattern">>) = few
            /\ HasFactor(factors, <<"ID number contains only zeros">>) = zeros
            /\ matches = <<>>
                  => risk_assessment.risk_score
                       = Smaller(no_id.risk_score
                                    + (IF few THEN unusual_id_penalty ELSE 0)
                                    + (IF zeros THEN 20 ELSE 0),
                                 max_risk_score)

---------------------------------------------------------------------------
(* The age signal of calculate_customer_risk, under SpecRisk *)

\* the date a date of birth parses to, NoDate when it is missing or does not
Birth(customer) ==
    IF IsStr(customer.date_of_birth) THEN strptime(customer.date_of_birth)
    ELSE NoDate

\* years between the dates, one less when (month, day) of now comes before
\* (month, day) of birth
YearsBetween(birth, now) ==
    (now.year - birth.year)
    - (IF 100 * now.month + now.day < 100 * birth.month + birth.day THEN 1 ELSE 0)

\* C25: calculate_customer_risk adds 15 exactly when the date of birth parses
\* and the age, the difference of the years less one when the current
\* (month, day) precedes that of the birth, is greater than age_risk_threshold;
\* an age of exactly the threshold, a missing date and a date that does not
\* parse add nothing, and no date makes the calculation raise.
C25_AgeSignal ==
    pc = "returned" =>
        LET birth == Birth(customer_data)
            fired == /\ birth # NoDate
                     /\ YearsBetween(birth, today) > age_risk_threshold
            no_dob == calculate_customer_risk(
                          [customer_data EXCEPT !.date_of_birth = None], <<>>, today)
        IN  /\ IsRaised(risk_assessment) = IsRaised(no_dob)
            /\ Returned =>
                  /\ HasFactor(risk_assessment.risk_factors,
                               <<"High age risk: ", YearsBetween(birth, today)>>)
                       = fired
                  /\ fired = (\E i \in 1..Len(risk_assessment.risk_factors) :
                                 risk_assessment.risk_factors[i][1] = "High age risk: ")
                  /\ matches = <<>>
                        => risk_assessment.risk_score
                             = Smaller(no_dob.risk_score + (IF fired THEN 15 ELSE 0),
                                       max_risk_score)

\* 70 years old on the eve of the 71st birthday: nothing is added
C25_Witness ==
    /\ Returned
    /\ Birth(customer_data) # NoDate
    /\ today.year - Birth(customer_data).year = age_risk_threshold + 1
    /\ YearsBetween(Birth(customer_data), today) = age_risk_threshold
    /\ matches = <<>>
    /\ risk_assessment.risk_score = 0
    /\ risk_assessment.risk_factors = <<>>

---------------------------------------------------------------------------
(* The dispositions of lists of EXACT and PARTIAL verdicts, under *)
(* SpecDisposition                                                 *)

\* C26: for a list of verdicts that are all EXACT or PARTIAL,
\* _determine_screening_result returns CLEAR exactly when the list is empty,
\* also when the risk level is HIGH or CRITICAL; a list that is not empty
\* gives REJECTED, REVIEW_REQUIRED or CLEAR_WITH_WARNING; PENDING is never
\* returned.
C26_ClearIffNoVerdicts ==
    (pc = "returned" /\ OnlyExactOrPartial(matches)) =>
        /\ (screening_result = "CLEAR") = (Len(matches) = 0)
        /\ Len(matches) > 0
              => screening_result
                   \in {"REJECTED", "REVIEW_REQUIRED", "CLEAR_WITH_WARNING"}
        /\ screening_result # "PENDING"

\* no verdicts and a CRITICAL level: CLEAR
C26_Witness ==
    /\ pc = "returned"
    /\ matches = <<>>
    /\ risk_assessment # NoDict
    /\ risk_assessment.risk_level = "CRITICAL"
    /\ screening_result = "CLEAR"

\* the run is over, after the screening loop came to its end
RunEnded == pc \in {"done", "error"} /\ cursor > Len(sanctions)

NoOtherSignal(customer, now) ==
    /\ IsStr(customer.occupation) => ~PepFired(customer)
    /\ ~CountryFired(customer)
    /\ ~AgeFired(customer, now)
    /\ ~FewCharsFired(customer)
    /\ ~ZerosFired(customer)

\* C27: under the default configuration a screening run ends in
\* CLEAR_WITH_WARNING exactly when one verdict is retained, it is PARTIAL and
\* no other risk signal fires (score 50, level MEDIUM); one PARTIAL verdict
\* with any other signal, or two or more PARTIAL verdicts, end in
\* REVIEW_REQUIRED.
C27_WarningIffLonePartial ==
    RunEnded =>
        LET partials == Len(matches) > 0 /\ ~HasMatchType(matches, "EXACT")
            lone     == /\ Len(matches) = 1
                        /\ matches[1].match_type = "PARTIAL"
                        /\ NoOtherSignal(customer_data, today)
        IN  /\ (screening_result = "CLEAR_WITH_WARNING") = lone
            /\ screening_result = "CLEAR_WITH_WARNING"
                  => /\ risk_assessment.risk_score = partial_match_penalty
                     /\ risk_assessment.risk_level = "MEDIUM"
            /\ (partials /\ ~lone) => screening_result = "REVIEW_REQUIRED"

---------------------------------------------------------------------------
(* Verdicts that are not EXACT in calculate_customer_risk, under SpecRisk *)

IsMatchFactor(factor) == KindOfFactor(factor) = "match"

\* C28: calculate_customer_risk treats every verdict whose match_type is not
\* EXACT as a partial match, a NO_MATCH verdict and a verdict without a
\* match_type included: it adds partial_match_penalty, appends a 'Partial
\* sanction match' factor and increments partial_matches.
C28_NotExactIsPartial ==
    Returned =>
        LET exact     == CountOfType(matches, "EXACT")
            not_exact == Len(matches) - exact
            factors   == SelectSeq(risk_assessment.risk_factors, IsMatchFactor)
        IN  /\ risk_assessment.risk_score
                 = Smaller(CustomerPenalties(customer_data, today)
                              + exact * sanction_match_penalty
                              + not_exact * partial_match_penalty,
                           max_risk_score)
            /\ Len(factors) = Len(matches)
            /\ \A i \in 1..Len(matches) :
                  factors[i][1]
                    = (IF Get(matches[i], "match_type", "<absent>") = "EXACT"
                       THEN "Exact sanction match: "
                       ELSE "Partial sanction match: ")
            /\ Get(risk_assessment.risk_details, "partial_matches", 0) = not_exact
            /\ Get(risk_assessment.risk_details, "exact_matches", 0) = exact

\* a verdict without a match_type and a NO_MATCH verdict, no other signal:
\* two partial matches, twice the partial penalty
C28_Witness ==
    /\ Returned
    /\ CustomerPenalties(customer_data, today) = 0
    /\ Len(matches) = 2
    /\ matches[1] = UntypedVerdict
    /\ matches[2] # UntypedVerdict
    /\ matches[2].match_type = "NO_MATCH"
    /\ risk_assessment.risk_details.partial_matches = 2
    /\ risk_assessment.risk_score = 2 * partial_match_penalty
    /\ risk_assessment.risk_factors[2][1] = "Partial sanction match: "

\* C29: in screen_new_customer the customer is offered for saving, and
\* db.add_customer is called, only when the disposition of the run is CLEAR
\* or CLEAR_WITH_WARNING; a run whose disposition is REJECTED or
\* REVIEW_REQUIRED never shows the prompt, calls add_customer or stores the
\* customer.
C29_SavedOnlyWhenClear ==
    /\ (pc \in {"save_prompt", "add_customer"} \/ customer_saved)
          => screening_result \in {"CLEAR", "CLEAR_WITH_WARNING"}
    /\ screening_result \in {"REJECTED", "REVIEW_REQUIRED"}
          => /\ pc \notin {"save_prompt", "add_customer"}
             /\ ~customer_saved

\* add_customer about to be called for a customer with a warning
C29_Witness ==
    /\ pc = "add_customer"
    /\ screening_result = "CLEAR_WITH_WARNING"

\* the stages of screen_new_customer in the order of its code
StageOf(position) ==
    CASE position = "collect" -> 0
      [] position = "validate" -> 1
      [] position \in {"search", "check"} -> 2
      [] position = "assess" -> 3
      [] position = "determine" -> 4
      [] position = "report" -> 5
      [] position \in {"ask_save", "save_prompt", "add_customer"} -> 6
      [] position \in {"done", "invalid", "error"} -> 7

\* C30: in screen_new_customer the screening, the risk calculation, the
\* report and the save prompt happen only after _validate_customer_data
\* returned no errors, and in the order validate, screen, assess risk,
\* determine the disposition, report, save; with at least one validation
\* error the run ends without screening, report or saved customer; warnings
\* alone do not stop the run.
C30_ValidatedThenInOrder ==
    [][ /\ \/ StageOf(pc') \in {StageOf(pc), StageOf(pc) + 1}
            \/ pc' \in {"invalid", "error"}
        /\ StageOf(pc') \in 2..6 \/ pc' \in {"done", "error"}
              => /\ validation_result' # NoDict
                 /\ validation_result'.errors = <<>>
        /\ pc = "validate"
              => /\ validation_result'.errors # <<>> => pc' = "invalid"
                 /\ validation_result'.errors = <<>> => pc' = "search"
        /\ pc' = "invalid"
              => /\ pc = "validate"
                 /\ sanctions' = <<>> /\ evaluated' = <<>> /\ matches' = <<>>
                 /\ risk_assessment' = NoDict
                 /\ screening_result' = Unset
                 /\ ~report_generated'
                 /\ ~customer_saved'
        /\ (sanctions' # sanctions \/ matches' # matches) => StageOf(pc) = 2
        /\ risk_assessment' # risk_assessment => pc = "assess"
        /\ screening_result' # screening_result => pc = "determine"
        /\ report_generated' # report_generated => pc = "report"
        /\ customer_saved' # customer_saved => pc = "add_customer" ]_vars

\* a run with warnings and no errors that came to its end with a report
C30_Witness ==
    /\ pc = "done"
    /\ validation_result.errors = <<>>
    /\ Len(validation_result.warnings) >= 2
    /\ report_generated
    /\ screening_result # Unset

---------------------------------------------------------------------------
(* Properties of the loop over any candidates, under SpecScreening *)

LoopEnded == pc \in {"assess", "error"}

ScreenedAlone(customer, entry) ==
    LET match_result == check_sanction_match(customer, entry)
    IN  IF IsRaised(match_result) THEN <<>>
        ELSE IF match_result.is_match THEN << match_result >> ELSE <<>>

\* C22: entries are evaluated independently: the verdict a turn of the loop
\* produces for a candidate is the one the customer record and that entry
\* give on their own, whatever was evaluated and retained before it; the
\* verdicts retained earlier stay as they are, and the turn leaves the
\* customer record and every entry unchanged.
C22_EntriesIndependent ==
    [][ /\ customer_data' = customer_data
        /\ sanctions' = sanctions
        /\ matches' = matches \o ScreenedAlone(customer_data, sanctions[cursor]) ]_vars

\* a matching entry in second place, after another entry that was retained
C22_Witness ==
    /\ pc = "assess"
    /\ Len(sanctions) = 2
    /\ sanctions[1] # sanctions[2]
    /\ Len(matches) = 2
    /\ matches[2] = check_sanction_match(customer_data, sanctions[2])
    /\ matches[2].sanction_id = 5
    /\ matches[1].sanction_id = 1

---------------------------------------------------------------------------
(* Properties of similarity_ratio, under SpecSimilarity *)

\* C18: similarity_ratio returns a value in [0, 100]; it is 100 for a
\* non-empty string and itself, and 0 when either string, or both, is empty.
C18_SimilarityRange ==
    pc = "returned" =>
        /\ InRange(result, 0, 100)
        /\ (args[1] # <<>> /\ args[2] = args[1]) => result = RatInt(100)
        /\ (args[1] = <<>> \/ args[2] = <<>>) => result = RatInt(0)
        /\ similarity_ratio(args[1], <<>>) = RatInt(0)
        /\ similarity_ratio(<<>>, args[1]) = RatInt(0)

\* a string of two characters or more compared with itself
C18_Witness ==
    /\ pc = "returned"
    /\ Len(args[1]) >= 2
    /\ args[2] = args[1]
    /\ result = RatInt(100)

---------------------------------------------------------------------------
(* Properties of normalize_english, under SpecNormalize *)

\* C19: normalize_english is idempotent: normalizing its result again gives
\* the same text, also for texts with titles, punctuation between letters
\* and repeated spaces.
C19_NormalizeIdempotent ==
    pc = "returned" => normalize_english(result) = result

\* a title was removed, a dot between two letters became a space, and the
\* result is normalized again to itself
C19_Witness ==
    /\ pc = "returned"
    /\ args[1] = <<"D", "r", " ", "m">> \/ args[1] = <<"s", ".", "m", " ">>
    /\ result \in {<<"m">>, <<"s", " ", "m">>}
    /\ normalize_english(result) = result

---------------------------------------------------------------------------
(* Properties of _token_sort_ratio, under SpecTokenSort *)

Injective(f) == \A i, j \in DOMAIN f : f[i] = f[j] => i = j

\* the sequences with the elements of seq in any order
Reorderings(seq) ==
    { [i \in 1..Len(seq) |-> seq[f[i]]] :
      f \in {g \in [1..Len(seq) -> 1..Len(seq)] : Injective(g)} }

\* C20: _token_sort_ratio of a text with one token or more and any
\* reordering of its tokens is 100, and _token_sort_ratio(a, b) stays the
\* same when the tokens of a or of b are reordered.
C20_TokenOrderIrrelevant ==
    pc = "returned" =>
        /\ \A tokens \in Reorderings(Split(args[1])) :
              /\ tokens # <<>>
                    => token_sort_ratio(args[1], JoinSpace(tokens)) = RatInt(100)
              /\ token_sort_ratio(JoinSpace(tokens), args[2]) = result
        /\ \A tokens \in Reorderings(Split(args[2])) :
              token_sort_ratio(args[1], JoinSpace(tokens)) = result

\* two different tokens in the two orders
C20_Witness ==
    /\ pc = "returned"
    /\ Len(Split(args[1])) = 2
    /\ Split(args[1])[1] # Split(args[1])[2]
    /\ Split(args[2]) = <<Split(args[1])[2], Split(args[1])[1]>>
    /\ result = RatInt(100)

---------------------------------------------------------------------------
(* Properties of _partial_ratio, under SpecPartialRatio *)

\* C21: whenever the shorter of two non-empty strings is a contiguous
\* substring of the longer, _partial_ratio returns 100, which is at least the
\* plain similarity ratio of the two strings, in either order of the arguments.
C21_SubstringScoresHundred ==
    LET shorter == IF Len(args[1]) <= Len(args[2]) THEN args[1] ELSE args[2]
        longer == IF Len(args[1]) <= Len(args[2]) THEN args[2] ELSE args[1]
    IN  (pc = "returned" /\ shorter # <<>> /\ Contains(longer, shorter)) =>
            /\ result = RatInt(100)
            /\ RatGE(result, similarity_ratio(args[1], args[2]))
            /\ partial_ratio(args[2], args[1]) = RatInt(100)

\* a shorter string found only at the end of a strictly longer one, the
\* longer one given first, where the plain ratio is below 100
C21_Witness ==
    /\ pc = "returned"
    /\ Len(args[1]) = Len(args[2]) + 2
    /\ args[2] # <<>>
    /\ SubSeq(args[1], 3, Len(args[1])) = args[2]
    /\ SubSeq(args[1], 1, Len(args[2])) # args[2]
    /\ SubSeq(args[1], 2, Len(args[2]) + 1) # args[2]
    /\ result = RatInt(100)
    /\ RatLT(similarity_ratio(args[1], args[2]), RatInt(100))

============================================================================
